---- MODULE Spec2Model ----
(***************************************************************************)
(* A model of the ExactFit lead pipeline: company discovery and domain     *)
(* deduplication (agents/research_agent.py), contact resolution over two   *)
(* providers (agents/enrichment_agent.py, services/hunter.py,              *)
(* services/pdl.py) and signal scoring (agents/scoring_agent.py).          *)
(*                                                                         *)
(* Python strings that the code inspects character by character (domains,  *)
(* job titles, signal details) are sequences of one-character strings.     *)
(* Python None is the token NONE.  A Python dict is a TLA+ record whose    *)
(* DOMAIN is the set of keys the dict holds.                               *)
(***************************************************************************)
EXTENDS Integers, Sequences, FiniteSets, TLC

VARIABLES
    \* ---- research_agent.py ----
    r_pc,               \* position in research_all_sources
    companies,          \* parse_companies: the list parsed from the LLM reply
    parsed_companies,   \* ResearchState.parsed_companies (research_icp's output)
    all_companies,      \* research_all_sources: records in arrival order
    unique_companies,   \* research_all_sources: the deduplicated output
    sources_used,       \* research_all_sources: sources that answered
    research_errors,    \* errors collected by the research run
    \* ---- scoring_agent.py ----
    s_pc,               \* the node of the scoring graph to run next
    leads,              \* ScoringState.leads
    customer_config,    \* ScoringState.customer_config
    scored_leads,       \* ScoringState.scored_leads
    unqualified_leads,  \* state["unqualified_leads"]
    reddit_signals,     \* state["reddit_signals"]
    stats,              \* the stats score_leads returns
    \* ---- enrichment_agent.py ----
    e_pc,               \* the step of enrich_leads to run next
    e_i,                \* the index of the running node's loop
    e_leads,            \* EnrichmentState.leads
    target_job_title,   \* EnrichmentState.target_job_title
    hunter_key,         \* whether HUNTER_API_KEY is set
    pdl_key,            \* whether PEOPLE_DATA_LABS_API_KEY is set
    hunter_results,     \* hunter_enrich: the leads that got Hunter fields
    enriched_leads,     \* EnrichmentState.enriched_leads
    failed_leads,       \* EnrichmentState.failed_leads
    final_leads,        \* pdl_enrich: the leads resolved so far
    enrich_stats,       \* the stats enrich_leads returns
    calls,              \* the log of service calls, in order
    \* ---- the title matchers, called on their own ----
    m_target_title,     \* the target_title argument
    m_contacts,         \* the list argument: one record per candidate
    m_ran,              \* the callers and matchers that have returned
    m_out,              \* what each returned: a list index, 0 for None
    \* ---- research_agent.py: the first two nodes of the research graph ----
    q_pc,               \* the node to run next
    icp,                \* ResearchState.icp
    search_queries,     \* ResearchState.search_queries
    raw_results,        \* ResearchState.raw_results
    q_errors,           \* ResearchState.errors
    \* ---- api/enrich.py, api/score.py on the leads table ----
    db,                 \* the status column of the table, by lead id
    db_before,          \* the column as the last request found it
    api_request         \* the last request served

research_vars == <<r_pc, companies, parsed_companies, all_companies,
                   unique_companies, sources_used, research_errors>>

score_vars == <<s_pc, leads, customer_config, scored_leads, unqualified_leads,
                reddit_signals, stats>>

enrich_vars == <<e_pc, e_i, e_leads, target_job_title, hunter_key, pdl_key,
                 hunter_results, enriched_leads, failed_leads, final_leads,
                 enrich_stats, calls>>

match_vars == <<m_target_title, m_contacts, m_ran, m_out>>

query_vars == <<q_pc, icp, search_queries, raw_results, q_errors>>

api_vars == <<db, db_before, api_request>>

vars == <<research_vars, score_vars, enrich_vars, match_vars, query_vars, api_vars>>

\* What an agent's run leaves alone: the other agents' variables.
not_research_vars == <<score_vars, enrich_vars, match_vars, query_vars, api_vars>>

not_score_vars == <<research_vars, enrich_vars, match_vars, query_vars, api_vars>>

not_enrich_vars == <<research_vars, score_vars, match_vars, query_vars, api_vars>>

not_match_vars == <<research_vars, score_vars, enrich_vars, query_vars, api_vars>>

not_query_vars == <<research_vars, score_vars, enrich_vars, match_vars, api_vars>>

not_api_vars == <<research_vars, score_vars, enrich_vars, match_vars, query_vars>>

-----------------------------------------------------------------------------
(* Bounds of the model *)

\* The most candidate companies one research run gathers over all sources.
MaxCompanies == 3

\* The most leads handed to one score_leads call.
MaxLeads == 2

\* The most leads handed to one enrich_leads call.
MaxEnrichLeads == 1

\* The most people one provider answer lists.
MaxContacts == 2

-----------------------------------------------------------------------------
(* Python values *)

NONE == <<"None">>

EmptyStr == <<>>

\* Python truthiness of a string-or-None value.
Truthy(v) == v # NONE /\ v # EmptyStr

\* dict.get(key, default)
Get(d, key, default) == IF key \in DOMAIN d THEN d[key] ELSE default

\* The lowercase of each uppercase letter.
LowerOf ==
    [ A |-> "a", B |-> "b", C |-> "c", D |-> "d", E |-> "e", F |-> "f",
      G |-> "g", H |-> "h", I |-> "i", J |-> "j", K |-> "k", L |-> "l",
      M |-> "m", N |-> "n", O |-> "o", P |-> "p", Q |-> "q", R |-> "r",
      S |-> "s", T |-> "t", U |-> "u", V |-> "v", W |-> "w", X |-> "x",
      Y |-> "y", Z |-> "z" ]

\* str.lower()
Lower(s) == [i \in 1..Len(s) |-> IF s[i] \in DOMAIN LowerOf THEN LowerOf[s[i]] ELSE s[i]]

\* needle in hay (Python substring test)
IsSubstr(needle, hay) ==
    \E k \in 0..(Len(hay) - Len(needle)) :
        \A i \in 1..Len(needle) : hay[k + i] = needle[i]

\* ch in s
HasChar(s, ch) == \E i \in 1..Len(s) : s[i] = ch

-----------------------------------------------------------------------------
(* research_agent.py: discovery and deduplication *)

\* Marks a record that holds no "domain" key.
ABSENT == <<"absent">>

\* A record as a source hands it over; id stands for the identity of the
\* Python dict (the source and the place in the source's list).
RawCompany(id, dom, sig) ==
    IF dom = ABSENT
    THEN [id |-> id, signal_type |-> sig, signal_detail |-> "detail"]
    ELSE [id |-> id, domain |-> dom, signal_type |-> sig, signal_detail |-> "detail"]

\* Domains a source may report: null, too short, without a dot, valid ones
\* of which two differ by case only, and the key absent.
DomainChoices ==
    { NONE, <<"a",".","b">>, <<"a","b","c","d">>, <<"a",".","c","o">>,
      <<"A",".","c","o">>, <<"b",".","i","o">> } \cup {ABSENT}

\* The key a comparison without .lower() would use.
DedupKeyRaw(raw) == raw

\* research_agent.py:431 and :305: the deduplication key of a raw domain.
DedupKey(raw) == Lower(raw)

\* research_agent.py:439-448: defaults added to a kept record.
WithDefaults(company) ==
    LET c1 == IF "status" \in DOMAIN company THEN company
              ELSE company @@ [status |-> "discovered"]
        c2 == IF "score" \in DOMAIN c1 THEN c1 ELSE c1 @@ [score |-> 0]
    IN  IF "signals" \in DOMAIN c2 THEN c2
        ELSE c2 @@ [signals |->
                      <<Get(c2, "signal_type", "unknown"), Get(c2, "signal_detail", "")>>]

\* research_agent.py:426-450: the loop of research_all_sources from record i
\* on, with the domains seen and the records kept so far.  A null domain
\* makes .lower() raise.
RECURSIVE DedupFrom(_, _, _, _)
DedupFrom(cs, i, seen, out) ==
    IF i > Len(cs) THEN [raised |-> FALSE, unique |-> out]
    ELSE LET raw == Get(cs[i], "domain", EmptyStr) IN
         IF raw = NONE THEN [raised |-> TRUE, unique |-> out]
         ELSE LET domain == DedupKey(raw) IN
              IF (domain = EmptyStr \/ ~HasChar(domain, ".") \/ Len(domain) < 4)
              THEN DedupFrom(cs, i + 1, seen, out)
              ELSE IF domain \notin seen
                   THEN DedupFrom(cs, i + 1, seen \cup {domain},
                                  Append(out, WithDefaults(cs[i])))
                   ELSE DedupFrom(cs, i + 1, seen, out)

\* The loop started past the first record.
DedupSkipFirst(cs) == DedupFrom(cs, 2, {}, <<>>)

DedupAllSources(cs) == DedupFrom(cs, 1, {}, <<>>)

\* research_agent.py:296-299: parse_companies stamps every parsed record.
Stamp(company) ==
    [k \in DOMAIN company \cup {"status", "score", "signals"} |->
        CASE k = "status" -> "discovered"
          [] k = "score" -> 0
          [] k = "signals" -> <<company.signal_type, company.signal_detail>>
          [] OTHER -> company[k]]

\* research_agent.py:301-308: the loop of parse_companies.
RECURSIVE ParseDedupFrom(_, _, _, _)
ParseDedupFrom(cs, i, seen, out) ==
    IF i > Len(cs) THEN [raised |-> FALSE, unique |-> out]
    ELSE LET raw == Get(cs[i], "domain", EmptyStr) IN
         IF raw = NONE THEN [raised |-> TRUE, unique |-> out]
         ELSE LET domain == DedupKey(raw) IN
              IF domain # EmptyStr /\ domain \notin seen
              THEN ParseDedupFrom(cs, i + 1, seen \cup {domain}, Append(out, cs[i]))
              ELSE ParseDedupFrom(cs, i + 1, seen, out)

ParseDedup(cs) == ParseDedupFrom(cs, 1, {}, <<>>)

\* The lists of at most n raw records a source may hand over.
RawBatches(src, n, sig) ==
    UNION {
        { [i \in 1..k |-> RawCompany(<<src, i>>, f[i], sig)] : f \in [1..k -> DomainChoices] }
        : k \in 0..n }

InitResearch ==
    /\ r_pc = "parse"
    /\ companies = <<>>
    /\ parsed_companies = <<>>
    /\ all_companies = <<>>
    /\ unique_companies = <<>>
    /\ sources_used = <<>>
    /\ research_errors = <<>>

\* research_agent.py:228-310: parse_companies.  The LLM reply does not parse
\* (:291-293) ...
ParseCompaniesUnparseable ==
    /\ r_pc = "parse"
    /\ companies' = <<>>
    /\ parsed_companies' = <<>>
    /\ research_errors' = Append(research_errors, "Failed to parse company extraction response")
    /\ r_pc' = "icp"
    /\ UNCHANGED <<all_companies, unique_companies, sources_used>>
    /\ UNCHANGED not_research_vars

\* ... or yields a list of records, which is stamped and deduplicated; a null
\* domain makes it raise.
ParseCompanies ==
    /\ r_pc = "parse"
    /\ \E batch \in RawBatches("job_boards", MaxCompanies, "hiring") :
         LET stamped == [i \in 1..Len(batch) |-> Stamp(batch[i])]
             res == ParseDedup(stamped)
         IN  /\ companies' = stamped
             /\ IF res.raised
                THEN r_pc' = "icp_raised" /\ parsed_companies' = <<>>
                ELSE r_pc' = "icp" /\ parsed_companies' = res.unique
    /\ UNCHANGED <<all_companies, unique_companies, sources_used, research_errors>>
    /\ UNCHANGED not_research_vars

\* research_agent.py:382-388: research_all_sources takes research_icp's
\* companies, or catches what it raised.  parse_companies' local list is gone.
ResearchIcpReturn ==
    /\ r_pc \in {"icp", "icp_raised"}
    /\ IF r_pc = "icp"
       THEN /\ all_companies' = all_companies \o parsed_companies
            /\ sources_used' = Append(sources_used, "job_boards")
            /\ research_errors' = research_errors
       ELSE /\ all_companies' = all_companies
            /\ sources_used' = sources_used
            /\ research_errors' = Append(research_errors, "Job board search failed")
    /\ companies' = <<>>
    /\ r_pc' = "yc"
    /\ UNCHANGED <<parsed_companies, unique_companies>>
    /\ UNCHANGED not_research_vars

NextSource(pc) ==
    CASE pc = "yc" -> "producthunt"
      [] pc = "producthunt" -> "funding"
      [] pc = "funding" -> "dedup"

SourceSignal(pc) ==
    CASE pc = "yc" -> "yc_company"
      [] pc = "producthunt" -> "product_launch"
      [] pc = "funding" -> "funding"

\* research_agent.py:391-424: one of the three directory sources answers with
\* some records (ids continue the arrival order) ...
GatherSource ==
    /\ r_pc \in {"yc", "producthunt", "funding"}
    /\ \E batch \in RawBatches(r_pc, MaxCompanies - Len(all_companies), SourceSignal(r_pc)) :
         all_companies' = all_companies \o batch
    /\ sources_used' = Append(sources_used, r_pc)
    /\ r_pc' = NextSource(r_pc)
    /\ UNCHANGED <<companies, parsed_companies, unique_companies, research_errors>>
    /\ UNCHANGED not_research_vars

\* ... or raises, which is caught and logged.
SourceFails ==
    /\ r_pc \in {"yc", "producthunt", "funding"}
    /\ research_errors' = Append(research_errors, r_pc)
    /\ r_pc' = NextSource(r_pc)
    /\ UNCHANGED <<companies, parsed_companies, all_companies, unique_companies, sources_used>>
    /\ UNCHANGED not_research_vars

\* research_agent.py:426-476: deduplicate and return, or raise on a null domain.
Deduplicate ==
    /\ r_pc = "dedup"
    /\ LET res == DedupAllSources(all_companies) IN
         IF res.raised
         THEN r_pc' = "raised" /\ UNCHANGED unique_companies
         ELSE r_pc' = "done" /\ unique_companies' = res.unique
    /\ UNCHANGED <<companies, parsed_companies, all_companies, sources_used, research_errors>>
    /\ UNCHANGED not_research_vars

NextResearch ==
    \/ ParseCompaniesUnparseable
    \/ ParseCompanies
    \/ ResearchIcpReturn
    \/ GatherSource
    \/ SourceFails
    \/ Deduplicate

-----------------------------------------------------------------------------
(* scoring_agent.py: signal scoring, tiering, qualification *)

\* scoring_agent.py:15-27
SIGNAL_WEIGHTS ==
    [hiring_sales |-> 40, hiring_multiple |-> 10, hiring_leadership |-> 35,
     funding |-> 40, tech_competitor |-> 15, tech_target |-> 10,
     reddit_mention |-> 30, reddit_buying_intent |-> 35, g2_complaint |-> 40,
     growth_signal |-> 25, combo_bonus |-> 10]

\* The keywords without the abbreviations.
sales_keywords_spelled ==
    { <<"s","a","l","e","s">>,
      <<"a","c","c","o","u","n","t"," ","e","x","e","c","u","t","i","v","e">>,
      <<"b","u","s","i","n","e","s","s"," ","d","e","v","e","l","o","p","m","e","n","t">> }

\* scoring_agent.py:125-132: sdr, bdr, sales, account executive, ae,
\* business development
sales_keywords ==
    { <<"s","d","r">>, <<"b","d","r">>, <<"s","a","l","e","s">>,
      <<"a","c","c","o","u","n","t"," ","e","x","e","c","u","t","i","v","e">>,
      <<"a","e">>,
      <<"b","u","s","i","n","e","s","s"," ","d","e","v","e","l","o","p","m","e","n","t">> }

\* The keywords that are titles.
leadership_titles ==
    { <<"v","p">>, <<"d","i","r","e","c","t","o","r">>, <<"c","h","i","e","f">>,
      <<"c","r","o">> }

\* scoring_agent.py:144: vp, head of, director, chief, cro
leadership_keywords ==
    { <<"v","p">>, <<"h","e","a","d"," ","o","f">>,
      <<"d","i","r","e","c","t","o","r">>, <<"c","h","i","e","f">>,
      <<"c","r","o">> }

\* The signal detail "Series A".
SD_series == <<"S", "e", "r", "i", "e", "s", " ", "A">>

\* The kinds of lead handed to score_leads: signal type, signal detail (null
\* for one kind) and whether the lead has a domain.  The details read
\* "Hiring 3 SDRs", "Head of Support, raised $2M",
\* "VP Sales, raised $5M", "SDR raised", "Series A, new VP Sales" (of a
\* funding lead) and "Series A" (which names no role, so a hiring lead with
\* it has the signals of its tools alone).
LeadKinds ==
    { [company_name |-> <<"Acme">>, domain |-> <<"acme.com">>, signal_type |-> "hiring", signal_detail |-> <<"H","i","r","i","n","g"," ","3"," ","S","D","R","s">>],
      [company_name |-> <<"Core">>, domain |-> <<"core.com">>, signal_type |-> "hiring", signal_detail |-> <<"H","e","a","d"," ","o","f"," ","S","u","p","p","o","r","t",","," ","r","a","i","s","e","d"," ","$","2","M">>],
      [company_name |-> <<"Dash">>, domain |-> <<"dash.com">>, signal_type |-> "hiring", signal_detail |-> <<"V","P"," ","S","a","l","e","s",","," ","r","a","i","s","e","d"," ","$","5","M">>],
      [company_name |-> <<"Echo">>, domain |-> <<"echo.com">>, signal_type |-> "hiring", signal_detail |-> <<"S","D","R"," ","r","a","i","s","e","d">>],
      [company_name |-> <<"Flux">>, domain |-> <<"flux.com">>, signal_type |-> "funding", signal_detail |-> <<"S","e","r","i","e","s"," ","A",","," ","n","e","w"," ","V","P"," ","S","a","l","e","s">>],
      [company_name |-> <<"Grid">>, signal_type |-> "hiring", signal_detail |-> SD_series],
      [company_name |-> <<"Hive">>, domain |-> <<"hive.com">>, signal_type |-> "hiring", signal_detail |-> SD_series],
      [company_name |-> <<"Null">>, domain |-> <<"null.com">>, signal_type |-> "hiring", signal_detail |-> NONE] }

\* The input lists: at most n leads; id stands for the identity of the dict.
LeadLists(n) ==
    UNION { { [i \in 1..k |-> f[i] @@ [id |-> i]] : f \in [1..k -> LeadKinds] } : k \in 0..n }

\* customer_config dicts: empty (all defaults), tools to detect, thresholds.
Configs ==
    { <<>>,
      [min_signals |-> 2],
      [competitors |-> <<"Apollo">>, target_tools |-> <<"HubSpot">>, min_signals |-> 0],
      [min_signals |-> 1, min_score |-> 50] }

\* x in list
InSeq(x, s) == \E i \in 1..Len(s) : s[i] = x

\* The subsequences of s (what a page scan may detect of the tools asked for).
RECURSIVE SubSeqs(_)
SubSeqs(s) ==
    IF s = <<>> THEN {<<>>}
    ELSE LET rest == SubSeqs(Tail(s)) IN rest \cup { <<Head(s)>> \o r : r \in rest }

RECURSIVE SumSeq(_)
SumSeq(s) == IF s = <<>> THEN 0 ELSE Head(s) + SumSeq(Tail(s))

Min(a, b) == IF a <= b THEN a ELSE b

\* scoring_agent.py:56-74: the tech signals of the detected tools.
RECURSIVE TechSignals(_, _, _)
TechSignals(detected, competitors, target_tools) ==
    IF detected = <<>> THEN <<>>
    ELSE LET tool == Head(detected)
             rest == TechSignals(Tail(detected), competitors, target_tools)
         IN  IF InSeq(tool, competitors)
             THEN <<[type |-> "tech_competitor", tool |-> tool,
                     detail |-> <<"Uses ", tool, " (your competitor)">>]>> \o rest
             ELSE IF InSeq(tool, target_tools)
             THEN <<[type |-> "tech_target", tool |-> tool,
                     detail |-> <<"Uses ", tool, " (good fit)">>]>> \o rest
             ELSE rest

\* scoring_agent.py:40-78: one lead of enrich_with_tech, given what
\* get_tech_stack detected for it.
TechLead(lead, detected, config) ==
    LET competitors == Get(config, "competitors", <<>>)
        target_tools == Get(config, "target_tools", <<>>)
        all_tools == competitors \o target_tools
        found == IF all_tools # <<>> THEN detected ELSE <<>>
        keys == DOMAIN lead \cup {"tech_signals", "detected_tools"}
    IN  IF ~Truthy(Get(lead, "domain", EmptyStr))
        THEN [k \in DOMAIN lead \cup {"tech_signals"} |->
                 IF k = "tech_signals" THEN <<>> ELSE lead[k]]
        ELSE [k \in keys |->
                 CASE k = "tech_signals" -> TechSignals(found, competitors, target_tools)
                   [] k = "detected_tools" -> found
                   [] OTHER -> lead[k]]

AnyKeyword(kws, text) == \E kw \in kws : IsSubstr(kw, text)

Signal(type, detail) == [type |-> type, points |-> SIGNAL_WEIGHTS[type], detail |-> detail]

\* scoring_agent.py:171-189
RECURSIVE TechScoreSignals(_)
TechScoreSignals(tech) ==
    IF tech = <<>> THEN <<>>
    ELSE LET t == Head(tech) IN
         (IF t.type \in {"tech_competitor", "tech_target"}
          THEN <<Signal(t.type, t.detail)>> ELSE <<>>) \o TechScoreSignals(Tail(tech))

\* A bonus that needs more than three signals.
ComboAfterThree(signals) == Len(signals) > 3

\* scoring_agent.py:192: if len(signals) >= 3
ComboDue(signals) == Len(signals) >= 3

\* scoring_agent.py:119-200: the signals of a lead in detection order.
LeadSignals(lead) ==
    LET signal_type == Get(lead, "signal_type", "")
        signal_detail == Lower(Get(lead, "signal_detail", EmptyStr))
        sales == IF signal_type = "hiring" /\ AnyKeyword(sales_keywords, signal_detail)
                 THEN <<Signal("hiring_sales", Get(lead, "signal_detail", <<"Hiring sales role">>))>>
                 ELSE <<>>
        leadership == IF signal_type = "hiring" /\ AnyKeyword(leadership_keywords, signal_detail)
                      THEN <<Signal("hiring_leadership", <<"Hiring sales leadership">>)>>
                      ELSE <<>>
        funding == IF \/ signal_type = "funding"
                      \/ IsSubstr(<<"f","u","n","d","i","n","g">>, signal_detail)
                      \/ IsSubstr(<<"r","a","i","s","e","d">>, signal_detail)
                   THEN <<Signal("funding", Get(lead, "signal_detail", <<"Recent funding">>))>>
                   ELSE <<>>
        base == sales \o leadership \o funding
                    \o TechScoreSignals(Get(lead, "tech_signals", <<>>))
    IN  IF ComboDue(base)
        THEN Append(base, Signal("combo_bonus",
                                 <<"Multiple signals detected (", ToString(Len(base)), ")">>))
        ELSE base

\* The running total of scoring_agent.py:134-193: each appended signal adds
\* its weight.
RawScore(signals) == SumSeq([i \in 1..Len(signals) |-> SIGNAL_WEIGHTS[signals[i].type]])

\* The score left without the cap.
CapScoreNone(score) == score

\* scoring_agent.py:203
CapScore(score) == Min(score, 100)

\* The tiers under strict thresholds.
TierStrict(score) ==
    IF score > 80 THEN "hot" ELSE IF score > 50 THEN "warm" ELSE "cold"

\* scoring_agent.py:206-217
Tier(score) ==
    IF score >= 80 THEN "hot" ELSE IF score >= 50 THEN "warm" ELSE "cold"

\* scoring_agent.py:115-226: one lead of calculate_scores.
ScoreLead(lead) ==
    LET signals == LeadSignals(lead)
        score == CapScore(RawScore(signals))
        tier == Tier(score)
        keys == DOMAIN lead \cup {"score", "signals", "signal_count", "tier",
                                  "tier_label", "recommended_action"}
    IN  [k \in keys |->
            CASE k = "score" -> score
              [] k = "signals" -> signals
              [] k = "signal_count" -> Len(signals)
              [] k = "tier" -> tier
              [] k = "tier_label" ->
                    (CASE tier = "hot" -> "HOT" [] tier = "warm" -> "WARM"
                       [] OTHER -> "COLD")
              [] k = "recommended_action" ->
                    (CASE tier = "hot" -> "Contact immediately"
                       [] tier = "warm" -> "Contact this week"
                       [] OTHER -> "Keep monitoring")
              [] OTHER -> lead[k]]

\* A sort that puts x before the elements of equal score.
InsertBeforeEqual(sorted, x) ==
    LET k == Cardinality({i \in 1..Len(sorted) : sorted[i].score > x.score})
    IN  SubSeq(sorted, 1, k) \o <<x>> \o SubSeq(sorted, k + 1, Len(sorted))

\* list.sort(key=score, reverse=True) is stable: x goes after every element
\* whose score is at least its own.
InsertByScore(sorted, x) ==
    LET k == Cardinality({i \in 1..Len(sorted) : sorted[i].score >= x.score})
    IN  SubSeq(sorted, 1, k) \o <<x>> \o SubSeq(sorted, k + 1, Len(sorted))

\* scoring_agent.py:229
RECURSIVE SortByScore(_)
SortByScore(s) ==
    IF s = <<>> THEN <<>>
    ELSE InsertByScore(SortByScore(SubSeq(s, 1, Len(s) - 1)), s[Len(s)])

\* The test with `or` in place of `and`.
QualifiesEither(lead, config) ==
    \/ Get(lead, "signal_count", 0) >= Get(config, "min_signals", 1)
    \/ Get(lead, "score", 0) >= Get(config, "min_score", 0)

\* scoring_agent.py:237-248
Qualifies(lead, config) ==
    /\ Get(lead, "signal_count", 0) >= Get(config, "min_signals", 1)
    /\ Get(lead, "score", 0) >= Get(config, "min_score", 0)

\* scoring_agent.py:265-285: the talking point of one signal, if any.
TalkingPoint(signal) ==
    LET signal_type == Get(signal, "type", "")
        detail == Get(signal, "detail", EmptyStr)
    IN  CASE signal_type = "hiring_sales" -> <<<<"Reference their sales hiring: ", detail>>>>
          [] signal_type = "hiring_leadership" ->
                <<<<"Mention you can help their new sales leader ramp up faster">>>>
          [] signal_type = "funding" ->
                <<<<"Congratulate on funding, mention scaling challenges">>>>
          [] signal_type = "tech_competitor" ->
                <<<<"They use ", detail[2], " - mention your competitive advantages">>>>
          [] signal_type = "tech_target" -> <<<<"Good tech fit: ", detail>>>>
          [] OTHER -> <<>>

RECURSIVE TalkingPoints(_)
TalkingPoints(signals) ==
    IF signals = <<>> THEN <<>>
    ELSE TalkingPoint(Head(signals)) \o TalkingPoints(Tail(signals))

\* An opener written from the signal of most points, the first of them.
generate_opener_strongest(lead) ==
    LET company == Get(lead, "company_name", <<"your company">>)
        signals == Get(lead, "signals", <<>>)
    IN  IF signals = <<>> THEN EmptyStr
        ELSE LET top_signal ==
                     signals[CHOOSE i \in 1..Len(signals) :
                                 /\ \A j \in 1..Len(signals) :
                                        signals[j].points <= signals[i].points
                                 /\ \A j \in 1..(i - 1) :
                                        signals[j].points < signals[i].points]
                 signal_type == Get(top_signal, "type", "")
                 detail == Get(top_signal, "detail", EmptyStr)
             IN  CASE signal_type = "hiring_sales" ->
                        <<"Saw ", company, " is ", Lower(detail), " - congrats on the growth!">>
                   [] signal_type = "hiring_leadership" ->
                        <<"Noticed ", company, " is bringing on new sales leadership.">>
                   [] signal_type = "funding" -> <<"Congrats on the funding!">>
                   [] signal_type = "tech_competitor" ->
                        <<"Noticed ", company, " uses ", detail[2], ".">>
                   [] OTHER -> EmptyStr

\* scoring_agent.py:296-320
generate_opener(lead) ==
    LET company == Get(lead, "company_name", <<"your company">>)
        signals == Get(lead, "signals", <<>>)
    IN  IF signals = <<>> THEN EmptyStr
        ELSE LET top_signal == signals[1]
                 signal_type == Get(top_signal, "type", "")
                 detail == Get(top_signal, "detail", EmptyStr)
             IN  CASE signal_type = "hiring_sales" ->
                        <<"Saw ", company, " is ", Lower(detail), " - congrats on the growth!">>
                   [] signal_type = "hiring_leadership" ->
                        <<"Noticed ", company, " is bringing on new sales leadership.">>
                   [] signal_type = "funding" -> <<"Congrats on the funding!">>
                   [] signal_type = "tech_competitor" ->
                        <<"Noticed ", company, " uses ", detail[2], ".">>
                   [] OTHER -> EmptyStr

\* An opener set whether or not there are talking points.
WithOpenerAlways(lead) ==
    LET l1 == [talking_points |-> TalkingPoints(Get(lead, "signals", <<>>))]
              @@ lead
    IN  [sample_opener |-> generate_opener(l1)] @@ l1

\* scoring_agent.py:262-291: one lead of generate_talking_points.
WithTalkingPoints(lead) ==
    LET talking_points == TalkingPoints(Get(lead, "signals", <<>>))
        l1 == [k \in DOMAIN lead \cup {"talking_points"} |->
                  IF k = "talking_points" THEN talking_points ELSE lead[k]]
    IN  IF talking_points # <<>>
        THEN [k \in DOMAIN l1 \cup {"sample_opener"} |->
                  IF k = "sample_opener" THEN generate_opener(l1) ELSE l1[k]]
        ELSE l1

\* The dicts of `ls` are the objects that `updated` holds after a mutation in
\* place: the same dict seen through another list.
Aliased(ls, updated) ==
    [i \in 1..Len(ls) |->
        IF \E j \in 1..Len(updated) : updated[j].id = ls[i].id
        THEN updated[CHOOSE j \in 1..Len(updated) : updated[j].id = ls[i].id]
        ELSE ls[i]]

\* round(total / n, 1) in tenths, ties to even.
RoundTenths(total, n) ==
    LET q == (10 * total) \div n
        r == (10 * total) % n
    IN  IF 2 * r > n \/ (2 * r = n /\ q % 2 = 1) THEN q + 1 ELSE q

\* scoring_agent.py:378-403
Stats(input, scored, unqualified) ==
    [total_input |-> Len(input),
     qualified |-> Len(scored),
     unqualified |-> Len(unqualified),
     hot |-> Len(SelectSeq(scored, LAMBDA l : Get(l, "tier", "") = "hot")),
     warm |-> Len(SelectSeq(scored, LAMBDA l : Get(l, "tier", "") = "warm")),
     cold |-> Len(SelectSeq(scored, LAMBDA l : Get(l, "tier", "") = "cold")),
     avg_score10 |-> IF scored # <<>>
                     THEN RoundTenths(SumSeq([i \in 1..Len(scored) |-> Get(scored[i], "score", 0)]),
                                      Len(scored))
                     ELSE 0]

NoStats == [total_input |-> 0, qualified |-> 0, unqualified |-> 0, hot |-> 0,
            warm |-> 0, cold |-> 0, avg_score10 |-> 0]

\* score_leads is called with a list of leads and a customer_config
\* (scoring_agent.py:345-376); the graph runs its nodes in the order of its
\* edges (:334-340), each on the state the previous one returned.
InitScore ==
    /\ s_pc = "enrich_with_tech"
    /\ leads \in LeadLists(MaxLeads)
    /\ customer_config \in Configs
    /\ scored_leads = <<>>
    /\ unqualified_leads = <<>>
    /\ reddit_signals = <<>>
    /\ stats = NoStats

\* scoring_agent.py:30-80
enrich_with_tech ==
    /\ s_pc = "enrich_with_tech"
    /\ \E det \in [1..Len(leads) ->
                     SubSeqs(Get(customer_config, "competitors", <<>>)
                             \o Get(customer_config, "target_tools", <<>>))] :
         leads' = [i \in 1..Len(leads) |-> TechLead(leads[i], det[i], customer_config)]
    /\ s_pc' = "enrich_with_reddit"
    /\ UNCHANGED <<customer_config, scored_leads, unqualified_leads, reddit_signals, stats>>
    /\ UNCHANGED not_score_vars

\* scoring_agent.py:83-104
enrich_with_reddit ==
    /\ s_pc = "enrich_with_reddit"
    /\ IF Get(customer_config, "competitors", <<>>) = <<>>
       THEN reddit_signals' = reddit_signals
       ELSE \E mentions \in {<<>>, <<"mention">>} : reddit_signals' = mentions
    /\ s_pc' = "calculate_scores"
    /\ UNCHANGED <<leads, customer_config, scored_leads, unqualified_leads, stats>>
    /\ UNCHANGED not_score_vars

\* scoring_agent.py:107-231; a null signal_detail makes .lower() raise (:121).
calculate_scores ==
    /\ s_pc = "calculate_scores"
    /\ IF \E i \in 1..Len(leads) : Get(leads[i], "signal_detail", EmptyStr) = NONE
       THEN /\ s_pc' = "raised"
            /\ UNCHANGED <<leads, scored_leads>>
       ELSE LET scored == [i \in 1..Len(leads) |-> ScoreLead(leads[i])] IN
            /\ leads' = scored
            /\ scored_leads' = SortByScore(scored)
            /\ s_pc' = "filter_qualified"
    /\ UNCHANGED <<customer_config, unqualified_leads, reddit_signals, stats>>
    /\ UNCHANGED not_score_vars

\* scoring_agent.py:234-256
filter_qualified ==
    /\ s_pc = "filter_qualified"
    /\ scored_leads' = SelectSeq(scored_leads, LAMBDA l : Qualifies(l, customer_config))
    /\ unqualified_leads' = SelectSeq(scored_leads, LAMBDA l : ~Qualifies(l, customer_config))
    /\ s_pc' = "generate_talking_points"
    /\ UNCHANGED <<leads, customer_config, reddit_signals, stats>>
    /\ UNCHANGED not_score_vars

\* scoring_agent.py:259-293
generate_talking_points ==
    /\ s_pc = "generate_talking_points"
    /\ scored_leads' = [i \in 1..Len(scored_leads) |-> WithTalkingPoints(scored_leads[i])]
    /\ leads' = Aliased(leads, scored_leads')
    /\ s_pc' = "stats"
    /\ UNCHANGED <<customer_config, unqualified_leads, reddit_signals, stats>>
    /\ UNCHANGED not_score_vars

\* scoring_agent.py:378-403
score_leads_return ==
    /\ s_pc = "stats"
    /\ stats' = Stats(leads, scored_leads, unqualified_leads)
    /\ s_pc' = "done"
    /\ UNCHANGED <<leads, customer_config, scored_leads, unqualified_leads, reddit_signals>>
    /\ UNCHANGED not_score_vars

NextScore ==
    \/ enrich_with_tech
    \/ enrich_with_reddit
    \/ calculate_scores
    \/ filter_qualified
    \/ generate_talking_points
    \/ score_leads_return

-----------------------------------------------------------------------------
(* enrichment_agent.py, services/hunter.py, services/pdl.py: contact       *)
(* resolution.  Job titles are character sequences; emails, domains and    *)
(* error texts are one-token sequences; a person's name is the sequence of *)
(* its words.  Confidence 0.6, 0.7, 0.85, 0.9 is counted in hundredths.    *)

\* f"{None}": the text Python formats a None as.
NoneText == <<"str(None)">>

\* f"{first} {last}".strip() over word sequences
FmtName(first, last) ==
    (IF first = NONE THEN NoneText ELSE first)
        \o (IF last = NONE THEN NoneText ELSE last)

\* Truthiness of a dict or a list.
NonEmpty(d) == DOMAIN d # {}

Max(a, b) == IF a >= b THEN a ELSE b

\* The result of a call that raised instead of returning.
RAISED == [raised |-> TRUE]

Raised(r) == "raised" \in DOMAIN r

\* Every error text: the agent never reads what an error says.
ERR == <<"error">>

T_vp_sales == <<"V", "P", " ", "S", "a", "l", "e", "s">>
T_software_engineer == <<"S", "o", "f", "t", "w", "a", "r", "e", " ", "E", "n", "g", "i", "n", "e", "e", "r">>
T_sales_director == <<"S", "a", "l", "e", "s", " ", "D", "i", "r", "e", "c", "t", "o", "r">>

stop_words ==
    { <<"o","f">>, <<"t","h","e">>, <<"a","n","d">>, <<"a">>, <<"a","n">>,
      <<"a","t">>, <<"i","n">>, <<"f","o","r">> }

key_words ==
    { <<"h","e","a","d">>, <<"v","p">>, <<"v","i","c","e">>,
      <<"p","r","e","s","i","d","e","n","t">>,
      <<"d","i","r","e","c","t","o","r">>, <<"m","a","n","a","g","e","r">>,
      <<"c","h","i","e","f">>, <<"l","e","a","d">>,
      <<"s","e","n","i","o","r">> }

\* str.replace("-", " ")
ReplaceHyphen(s) == [i \in 1..Len(s) |-> IF s[i] = "-" THEN " " ELSE s[i]]

RECURSIVE SplitFrom(_, _, _, _)
SplitFrom(s, i, word, words) ==
    LET closed == IF word = <<>> THEN words ELSE words \cup {word}
    IN  IF i > Len(s) THEN closed
        ELSE IF s[i] = " " THEN SplitFrom(s, i + 1, <<>>, closed)
        ELSE SplitFrom(s, i + 1, Append(word, s[i]), words)

\* set(title.replace("-", " ").split()) - stop_words, of a lowercased title
TitleWords(lowered) == SplitFrom(ReplaceHyphen(lowered), 1, <<>>, {}) \ stop_words

\* The loop of find_best_title_match and find_title_match over contacts i..,
\* returning the index of the contact chosen, 0 for None.  With D the number
\* of target words (at least 1), a score is counted in units of 1/(5*D):
\* len(matching)/D is 5*len(matching), the 0.2 boost is D, and the threshold
\* 0.4 is 2*D.  The titles of this model have at most three words, where the
\* floating-point sums equal the exact ones.
\* The test with equality in place of containment.
ExactEqual(target_lower, position) == target_lower = position

\* hunter.py:155, enrichment_agent.py:104: the exact match
\* `target_lower in position or position in target_lower`.
ExactMatch(target_lower, position) ==
    IsSubstr(target_lower, position) \/ IsSubstr(position, target_lower)

\* A threshold that accepts every best match.
AcceptsAny(best_score, D) == best_score > 0

\* hunter.py:180, enrichment_agent.py:117: best_score >= 0.4, in units of
\* 1/(5*D).
Accepts(best_score, D) == best_score >= 2 * D

RECURSIVE BestTitleFrom(_, _, _, _, _, _, _)
BestTitleFrom(contacts, target_lower, target_words, boost, i, best_match, best_score) ==
    LET D == Max(Cardinality(target_words), 1)
    IN  IF i > Len(contacts)
        THEN IF Accepts(best_score, D) THEN best_match ELSE 0
        ELSE
          LET raw == Get(contacts[i], "position", NONE)
              position == Lower(IF Truthy(raw) THEN raw ELSE EmptyStr)
              position_words == TitleWords(position)
              matching_words == target_words \cap position_words
              score == 5 * Cardinality(matching_words)
                       + (IF boost /\ matching_words \cap key_words # {}
                          THEN D ELSE 0)
          IN  IF position_words = {}
              THEN BestTitleFrom(contacts, target_lower, target_words, boost,
                                 i + 1, best_match, best_score)
              ELSE IF ExactMatch(target_lower, position)
              THEN i
              ELSE IF score > best_score
              THEN BestTitleFrom(contacts, target_lower, target_words, boost,
                                 i + 1, i, score)
              ELSE BestTitleFrom(contacts, target_lower, target_words, boost,
                                 i + 1, best_match, best_score)

\* hunter.py: the matcher with the key-word boost
find_best_title_match(contacts, target_title) ==
    IF ~Truthy(target_title) THEN 0
    ELSE BestTitleFrom(contacts, Lower(target_title),
                       TitleWords(Lower(target_title)), TRUE, 1, 0, 0)

\* The matcher without its guard `if not target_title: return None`, a None
\* read as "".
MatchUnguarded(contacts, target_title) ==
    LET target == IF target_title = NONE THEN EmptyStr ELSE target_title
    IN  BestTitleFrom(contacts, Lower(target), TitleWords(Lower(target)),
                      FALSE, 1, 0, 0)

\* enrichment_agent.py: the matcher without the boost
find_title_match(contacts, target_title) ==
    IF ~Truthy(target_title) THEN 0
    ELSE BestTitleFrom(contacts, Lower(target_title),
                       TitleWords(Lower(target_title)), FALSE, 1, 0, 0)

\* pdl.py: the loop of find_best_match over people i.., returning the index
\* of the person chosen or -1 when person.get("job_title", "").lower() raises
\* on a null job_title.  Scores share the divisor, so matching words compare.
RECURSIVE BestPersonFrom(_, _, _, _, _, _)
BestPersonFrom(people, target_lower, target_words, i, best_match, best_score) ==
    IF i > Len(people) THEN best_match
    ELSE IF Get(people[i], "job_title", EmptyStr) = NONE THEN -1
    ELSE
      LET title == Lower(Get(people[i], "job_title", EmptyStr))
          title_words == TitleWords(title)
          score == Cardinality(target_words \cap title_words)
      IN  IF title_words = {}
          THEN BestPersonFrom(people, target_lower, target_words, i + 1,
                              best_match, best_score)
          ELSE IF IsSubstr(target_lower, title)
                  \/ IsSubstr(title, target_lower)
          THEN i
          ELSE IF score > best_score
          THEN BestPersonFrom(people, target_lower, target_words, i + 1, i,
                              score)
          ELSE BestPersonFrom(people, target_lower, target_words, i + 1,
                              best_match, best_score)

find_best_match(people, target_title) ==
    BestPersonFrom(people, Lower(target_title),
                   TitleWords(Lower(target_title)), 1, 1, 0)

\* enrichment_agent.py:46-57: the contact hunter_enrich takes from a
\* non-empty list: the title match when there is a target title and a match,
\* else the first.
SelectContact(emails, target_title) ==
    LET Select(best) == IF best # 0 THEN best ELSE 1
    IN  Select(IF Truthy(target_title)
               THEN find_title_match(emails, target_title)
               ELSE 0)

\* The sequences over S of length at most n.
SeqsUpTo(S, n) == UNION { [1..k -> S] : k \in 0..n }

\* ---- the title matchers and their callers, on a target and a list ----

T_hr_manager == <<"H", "R", " ", "M", "a", "n", "a", "g", "e", "r">>
T_head_of_support == <<"H", "e", "a", "d", " ", "o", "f", " ", "S", "u", "p", "p", "o", "r", "t">>
P_vp_support_ops == <<"V", "P", " ", "o", "f", " ", "C", "u", "s", "t", "o", "m", "e", "r", " ", "S", "u", "p", "p", "o", "r", "t", " ", "a", "n", "d", " ", "H", "e", "a", "d", " ", "o", "f", " ", "S", "u", "p", "p", "o", "r", "t", " ", "O", "p", "e", "r", "a", "t", "i", "o", "n", "s">>

\* The target titles: None, "", and titles of one to three words that count.
MatchTargets ==
    { NONE, EmptyStr, T_hr_manager, T_head_of_support, T_vp_sales,
      <<"H", "e", "a", "d", " ", "o", "f", " ", "C", "u", "s", "t", "o", "m", "e", "r", " ", "S", "u", "p", "p", "o", "r", "t">> }

\* The position of a candidate: null, "", or a title (among them
\* "Head-of-Support", "VP Marketing", "Customer Success").
MatchPositions ==
    { NONE, EmptyStr, T_software_engineer, T_sales_director,
      <<"H","e","a","d","-","o","f","-","S","u","p","p","o","r","t">>,
      <<"V","P"," ","M","a","r","k","e","t","i","n","g">>,
      <<"C","u","s","t","o","m","e","r"," ","S","u","c","c","e","s","s">>,
      P_vp_support_ops }

NoMatchOut ==
    [find_title_match |-> 0, find_best_title_match |-> 0, hunter_enrich |-> 0,
     find_email_by_title |-> 0, find_person |-> 0]

\* A caller hands its matcher the non-empty list a provider answered
\* (hunter.py:85, enrichment_agent.py:46, pdl.py:57).
InitMatch ==
    /\ m_target_title \in MatchTargets
    /\ m_contacts \in { [i \in 1..Len(ps) |-> [position |-> ps[i]]] :
                           ps \in SeqsUpTo(MatchPositions, MaxContacts) \ {<<>>} }
    /\ m_ran = {}
    /\ m_out = NoMatchOut

Returned(fn, index) ==
    /\ fn \notin m_ran
    /\ m_ran' = m_ran \cup {fn}
    /\ m_out' = [m_out EXCEPT ![fn] = index]
    /\ UNCHANGED <<m_target_title, m_contacts>>
    /\ UNCHANGED not_match_vars

\* enrichment_agent.py:80-120, called on the arguments as they are.
CallFindTitleMatch ==
    Returned("find_title_match", find_title_match(m_contacts, m_target_title))

\* hunter.py:117-183, called on the arguments as they are.
CallFindBestTitleMatch ==
    Returned("find_best_title_match",
             find_best_title_match(m_contacts, m_target_title))

\* enrichment_agent.py:46-57: the contact hunter_enrich takes from the list.
HunterEnrichSelects ==
    Returned("hunter_enrich", SelectContact(m_contacts, m_target_title))

\* hunter.py:25-26, 88-110: find_email hands a target title to
\* find_email_by_title, which takes the best match, else the first contact.
FindEmailByTitleSelects ==
    LET Select(best_match) == IF best_match # 0 THEN best_match ELSE 1
    IN  /\ Truthy(m_target_title)
        /\ Returned("find_email_by_title",
                    Select(find_best_title_match(m_contacts, m_target_title)))

\* pdl.py:60-64: find_person takes find_best_match's person under a target
\* title, else the first; -1 when find_best_match raises.
FindPersonSelects ==
    Returned("find_person",
             IF Truthy(m_target_title)
             THEN find_best_match([i \in 1..Len(m_contacts) |->
                                     [job_title |-> m_contacts[i].position]],
                                  m_target_title)
             ELSE 1)

NextMatch ==
    \/ CallFindTitleMatch
    \/ CallFindBestTitleMatch
    \/ HunterEnrichSelects
    \/ FindEmailByTitleSelects
    \/ FindPersonSelects

EM_a == <<"a@acme.com">>

\* People as Hunter's domain-search lists them: one whose title is a target
\* title, one with no names and an unrelated title, one with a null email
\* and a null first name.
HP_vp ==
    [value |-> EM_a, first_name |-> <<"Ann">>, last_name |-> <<"Lee">>,
     position |-> T_vp_sales, confidence |-> 80]

HunterPersons ==
    { HP_vp,
      [value |-> <<"b@acme.com">>, first_name |-> EmptyStr, last_name |-> EmptyStr,
       position |-> T_software_engineer, confidence |-> 50],
      [value |-> NONE, first_name |-> NONE, last_name |-> <<"Roe">>,
       position |-> <<"S","a","l","e","s"," ","M","a","n","a","g","e","r">>,
       confidence |-> 10] }

\* What the domain-search endpoint may answer: a non-200 status or a failed
\* request, or a list of people.
DomainSearchReplies ==
    {[status |-> "error"]}
    \cup {[status |-> "ok", organization |-> <<"Acme">>, emails |-> s] :
             s \in SeqsUpTo(HunterPersons, MaxContacts)}

\* What the email-finder endpoint may answer: an error status or a failed
\* request, data without an email, or a verified email with a null position.
EmailFinderReplies ==
    { [status |-> "error"],
      [status |-> "ok", data |-> [email |-> NONE]],
      [status |-> "ok",
       data |-> [email |-> EM_a, first_name |-> <<"Ann">>,
                 last_name |-> <<"Lee">>, position |-> NONE, score |-> 90,
                 verification |-> [status |-> "valid"]]] }

\* People as PDL's person search lists them: one holding Hunter's email, one
\* whose professional email is another, one with no email and a null title.
PdlPersons ==
    { [work_email |-> EM_a, first_name |-> <<"Pat">>, last_name |-> <<"Doe">>,
       job_title |-> T_vp_sales, linkedin_url |-> <<"linkedin.com/in/pat">>],
      [emails |-> << [kind |-> "dict", type |-> <<"personal">>,
                      address |-> <<"x@mail.com">>],
                     [kind |-> "dict", type |-> <<"current_professional">>,
                      address |-> <<"p@acme.com">>] >>,
       first_name |-> <<"Kim">>, last_name |-> <<"Poe">>,
       job_title |-> T_sales_director],
      [first_name |-> <<"Sam">>, last_name |-> NONE, job_title |-> NONE] }

\* What the person-search endpoint may answer: 404, another error status or
\* a failed request, a 200 whose body is not JSON, or a list of people.
FindPersonReplies ==
    {[status |-> "404"], [status |-> "error"], [status |-> "malformed"]}
    \cup {[status |-> "ok", data |-> s] :
             s \in SeqsUpTo(PdlPersons, MaxContacts)}

\* What the person-enrich endpoint may answer: as above, or a 200 with no
\* data or with a profile.
EnrichEmailReplies ==
    { [status |-> "404"], [status |-> "error"], [status |-> "malformed"],
      [status |-> "ok", data |-> <<>>],
      [status |-> "ok",
       data |-> [first_name |-> <<"Pat">>, last_name |-> <<"Doe">>,
                 job_title |-> <<"C","R","O">>,
                 linkedin_url |-> <<"linkedin.com/in/pat">>]] }

\* ---- services/hunter.py ----

\* One entry of the call log: a service function the run entered for a lead,
\* whether it sent its HTTP request (it does not without an API key), and,
\* for PDL, what it returned.
Call(fn, http, ret) == [fn |-> fn, http |-> http, ret |-> ret]

\* domain_search: the department and seniority it copies are never read.
domain_search(reply) ==
    IF ~hunter_key THEN [emails |-> <<>>, error |-> ERR]
    ELSE IF reply.status # "ok" THEN [emails |-> <<>>, error |-> ERR]
    ELSE [company |-> Get(reply, "organization", EmptyStr),
          emails |-> [i \in 1..Len(reply.emails) |->
                        [email |-> Get(reply.emails[i], "value", NONE),
                         first_name |->
                             Get(reply.emails[i], "first_name", EmptyStr),
                         last_name |->
                             Get(reply.emails[i], "last_name", EmptyStr),
                         position |->
                             Get(reply.emails[i], "position", EmptyStr),
                         confidence |->
                             Get(reply.emails[i], "confidence", 0)]]]

\* find_email without a job title, past the API-key test: the email-finder
\* request.
email_finder(reply) ==
    IF reply.status # "ok" THEN [email |-> NONE, error |-> ERR]
    ELSE IF NonEmpty(reply.data) /\ Truthy(Get(reply.data, "email", NONE))
    THEN [email |-> reply.data.email,
          first_name |-> Get(reply.data, "first_name", EmptyStr),
          last_name |-> Get(reply.data, "last_name", EmptyStr),
          position |-> Get(reply.data, "position", EmptyStr),
          confidence |-> Get(reply.data, "score", 0),
          verified |->
              Get(Get(reply.data, "verification", <<>>), "status", "")
                  = "valid"]
    ELSE [email |-> NONE, error |-> ERR]

\* find_email_by_title: the list of the domain, the finder when the list
\* failed or is empty, else the best title match, else the first contact.
find_email_by_title(job_title, ds_reply, ef_reply) ==
    LET Found(chosen) ==
            [email |-> chosen.email,
             first_name |-> Get(chosen, "first_name", EmptyStr),
             last_name |-> Get(chosen, "last_name", EmptyStr),
             position |-> Get(chosen, "position", EmptyStr),
             confidence |-> Get(chosen, "confidence", 0)]
        Pick(emails, best_match) ==
            IF best_match # 0 THEN Found(emails[best_match])
            ELSE Found(emails[1]) @@ [note |-> <<"best available">>]
        Answer(result) ==
            IF Truthy(Get(result, "error", EmptyStr)) \/ result.emails = <<>>
            THEN [ret |-> email_finder(ef_reply),
                  log |-> << Call("domain_search", TRUE, <<>>),
                             Call("find_email", TRUE, <<>>) >>]
            ELSE [ret |-> Pick(result.emails,
                               find_best_title_match(result.emails,
                                                     job_title)),
                  log |-> << Call("domain_search", TRUE, <<>>) >>]
    IN  Answer(domain_search(ds_reply))

\* find_email: what it returns and the calls it made.
find_email(job_title, ds_reply, ef_reply) ==
    IF ~hunter_key
    THEN [ret |-> [email |-> NONE, error |-> ERR],
          log |-> << Call("find_email", FALSE, <<>>) >>]
    ELSE IF Truthy(job_title)
    THEN find_email_by_title(job_title, ds_reply, ef_reply)
    ELSE [ret |-> email_finder(ef_reply),
          log |-> << Call("find_email", TRUE, <<>>) >>]

\* ---- services/pdl.py ----

\* extract_email: work_email, else the first entry of emails that is a string
\* or a current_professional dict, else the first entry.
extract_email(person) ==
    LET emails == Get(person, "emails", <<>>)
        Entry(e) == IF e.kind = "dict" THEN Get(e, "address", NONE)
                    ELSE e.value
        hits == { i \in 1..Len(emails) :
                    \/ emails[i].kind = "str"
                    \/ Get(emails[i], "type", NONE) = <<"current_professional">> }
    IN  IF Truthy(Get(person, "work_email", NONE)) THEN person.work_email
        ELSE IF emails # <<>>
        THEN IF hits # {}
             THEN Entry(emails[CHOOSE i \in hits : \A j \in hits : i <= j])
             ELSE Entry(emails[1])
        ELSE NONE

\* find_person: only httpx.HTTPError is caught, so a body that is not JSON,
\* or a null job_title under a target title, raises out of the call.
find_person(job_title, reply) ==
    LET Found(best) ==
            [email |-> extract_email(best),
             first_name |-> Get(best, "first_name", EmptyStr),
             last_name |-> Get(best, "last_name", EmptyStr),
             title |-> Get(best, "job_title", EmptyStr),
             linkedin_url |-> Get(best, "linkedin_url", EmptyStr)]
        Pick(b) == IF b = -1 THEN RAISED ELSE Found(reply.data[b])
    IN  IF ~pdl_key THEN [email |-> NONE, error |-> ERR]
        ELSE IF reply.status \in {"404", "error"}
        THEN [email |-> NONE, error |-> ERR]
        ELSE IF reply.status = "malformed" THEN RAISED
        ELSE IF reply.data = <<>> THEN [email |-> NONE, error |-> ERR]
        ELSE IF Truthy(job_title)
        THEN Pick(find_best_match(reply.data, job_title))
        ELSE Pick(1)

\* enrich_email with no except clause around the request: a failed request
\* or an error status raises.
enrich_email_uncaught(email, reply) ==
    IF ~pdl_key THEN [email |-> email, valid |-> FALSE, error |-> ERR]
    ELSE IF reply.status = "404"
    THEN [email |-> email, valid |-> FALSE, error |-> ERR]
    ELSE IF reply.status \in {"error", "malformed"} THEN RAISED
    ELSE IF NonEmpty(reply.data)
    THEN [email |-> email, valid |-> TRUE,
          first_name |-> Get(reply.data, "first_name", EmptyStr),
          last_name |-> Get(reply.data, "last_name", EmptyStr),
          title |-> Get(reply.data, "job_title", EmptyStr),
          linkedin_url |-> Get(reply.data, "linkedin_url", EmptyStr)]
    ELSE [email |-> email, valid |-> FALSE, error |-> ERR]

\* enrich_email: valid exactly when the 200 answer carries data.
enrich_email(email, reply) ==
    IF ~pdl_key THEN [email |-> email, valid |-> FALSE, error |-> ERR]
    ELSE IF reply.status \in {"404", "error"}
    THEN [email |-> email, valid |-> FALSE, error |-> ERR]
    ELSE IF reply.status = "malformed" THEN RAISED
    ELSE IF NonEmpty(reply.data)
    THEN [email |-> email, valid |-> TRUE,
          first_name |-> Get(reply.data, "first_name", EmptyStr),
          last_name |-> Get(reply.data, "last_name", EmptyStr),
          title |-> Get(reply.data, "job_title", EmptyStr),
          linkedin_url |-> Get(reply.data, "linkedin_url", EmptyStr)]
    ELSE [email |-> email, valid |-> FALSE, error |-> ERR]

\* ---- agents/enrichment_agent.py ----

\* An empty reason.
E_blank == EmptyStr

E_no_domain == <<"No domain available">>
E_hunter_none == <<"Hunter: No email found">>

\* The log entries of one lead.
Stamped(log, id) == [k \in 1..Len(log) |-> [lead |-> id] @@ log[k]]

\* The fields hunter_enrich captures from a find_email result or from a
\* contact of the domain list.
HunterFields(c, verified) ==
    [hunter_email |-> c.email,
     hunter_name |-> FmtName(Get(c, "first_name", EmptyStr),
                             Get(c, "last_name", EmptyStr)),
     hunter_title |-> Get(c, "position", EmptyStr),
     hunter_confidence |-> Get(c, "confidence", 0),
     hunter_verified |-> verified]

\* The body of hunter_enrich's loop for one lead, given what the endpoints
\* answer: the list asked by find_email_by_title, the finder, and the list
\* asked by the fallback.
HunterOutcome(lead, ds_reply, ef_reply, fallback_reply) ==
    LET fallback_log == << Call("domain_search", hunter_key, <<>>) >>
        Captured(emails) ==
            HunterFields(emails[SelectContact(emails, target_job_title)],
                         FALSE)
        Fallback(fe, search_result) ==
            IF search_result.emails # <<>>
            THEN [kind |-> "found", log |-> fe.log \o fallback_log,
                  fallback_log |-> fallback_log,
                  lead |-> Captured(search_result.emails)
                           @@ [company_name_verified |->
                                 Get(search_result, "company",
                                     Get(lead, "company_name", EmptyStr))]
                           @@ lead]
            ELSE [kind |-> "failed", log |-> fe.log \o fallback_log,
                  fallback_log |-> fallback_log,
                  lead |-> [error |-> E_hunter_none] @@ lead]
        Turn(fe) ==
            IF Truthy(Get(fe.ret, "email", NONE))
            THEN [kind |-> "found", log |-> fe.log, fallback_log |-> <<>>,
                  lead |-> HunterFields(fe.ret,
                                        Get(fe.ret, "verified", FALSE))
                           @@ lead]
            ELSE Fallback(fe, domain_search(fallback_reply))
    IN  IF ~Truthy(Get(lead, "domain", EmptyStr))
        THEN [kind |-> "failed", log |-> <<>>, fallback_log |-> <<>>,
              lead |-> [error |-> E_no_domain] @@ lead]
        ELSE Turn(find_email(target_job_title, ds_reply, ef_reply))

\* A table that is off in the branch of the alternative email.
ConfidenceAlternative75(branch) ==
    CASE branch = "pdl_only" -> 60
      [] branch = "confirmed" -> 90
      [] branch = "agreed" -> 85
      [] branch = "alternative" -> 75
      [] branch = "hunter_only" -> 60

\* The confidence pdl_enrich assigns in each of its branches, in hundredths.
Confidence(branch) ==
    CASE branch = "pdl_only" -> 60
      [] branch = "confirmed" -> 90
      [] branch = "agreed" -> 85
      [] branch = "alternative" -> 70
      [] branch = "hunter_only" -> 60

\* The preference turned around: b or a.
PreferPdl(hunter_value, pdl_value) ==
    IF Truthy(pdl_value) THEN pdl_value ELSE hunter_value

\* a or b, over strings
Prefer(hunter_value, pdl_value) ==
    IF Truthy(hunter_value) THEN hunter_value ELSE pdl_value

\* The test without the comparison of the two emails.
AnyEmail(pdl_email, hunter_email) == Truthy(pdl_email)

\* pdl_person.get("email") and pdl_person["email"] == hunter_email
SameEmail(pdl_email, hunter_email) ==
    Truthy(pdl_email) /\ pdl_email = hunter_email

\* The fields the three unconfirmed branches share.
HunterContact(lead, hunter_email, branch, sources) ==
    [contact_email |-> hunter_email,
     contact_name |-> Get(lead, "hunter_name", EmptyStr),
     contact_title |-> Get(lead, "hunter_title", EmptyStr),
     confidence |-> Confidence(branch),
     sources |-> sources]

\* A test that reads a key enrich_email never sets.
ConfirmsNever(pdl_result) == Get(pdl_result, "is_valid", FALSE)

\* enrichment_agent.py:154: if pdl_result.get("valid")
Confirms(pdl_result) == Get(pdl_result, "valid", FALSE)

\* The body of pdl_enrich's loop for one lead, given what the PDL endpoints
\* answer.
PdlOutcome(lead, enrich_reply, person_reply) ==
    LET Direct(pdl_result) ==
            IF Raised(pdl_result)
            THEN [kind |-> "raised",
                  log |-> << Call("find_person", pdl_key, pdl_result) >>]
            ELSE IF Truthy(Get(pdl_result, "email", NONE))
            THEN [kind |-> "final",
                  log |-> << Call("find_person", pdl_key, pdl_result) >>,
                  lead |->
                    [contact_email |-> pdl_result.email,
                     contact_name |->
                         FmtName(Get(pdl_result, "first_name", EmptyStr),
                                 Get(pdl_result, "last_name", EmptyStr)),
                     contact_title |-> Get(pdl_result, "title", EmptyStr),
                     confidence |-> Confidence("pdl_only"),
                     sources |-> <<"pdl">>,
                     linkedin_url |->
                         Get(pdl_result, "linkedin_url", EmptyStr)]
                    @@ lead]
            ELSE [kind |-> "failed",
                  log |-> << Call("find_person", pdl_key, pdl_result) >>,
                  lead |-> [error |-> <<"PDL: No email found">>] @@ lead]
        Unconfirmed(hunter_email, pdl_result, pdl_person) ==
            [log |-> << Call("enrich_email", pdl_key, pdl_result),
                        Call("find_person", pdl_key, pdl_person) >>]
            @@ IF Raised(pdl_person) THEN [kind |-> "raised"]
               ELSE IF SameEmail(Get(pdl_person, "email", NONE),
                                 hunter_email)
               THEN [kind |-> "final",
                     lead |-> HunterContact(lead, hunter_email, "agreed",
                                            <<"hunter", "pdl">>) @@ lead]
               ELSE IF Truthy(Get(pdl_person, "email", NONE))
               THEN [kind |-> "final",
                     lead |-> HunterContact(lead, hunter_email,
                                            "alternative", <<"hunter">>)
                              @@ [pdl_alternative |-> pdl_person.email]
                              @@ lead]
               ELSE [kind |-> "final",
                     lead |-> HunterContact(lead, hunter_email,
                                            "hunter_only", <<"hunter">>)
                              @@ lead]
        Verified(hunter_email, pdl_result) ==
            IF Raised(pdl_result)
            THEN [kind |-> "raised",
                  log |-> << Call("enrich_email", pdl_key, pdl_result) >>]
            ELSE IF Confirms(pdl_result)
            THEN [kind |-> "final",
                  log |-> << Call("enrich_email", pdl_key, pdl_result) >>,
                  lead |->
                    [contact_email |-> hunter_email,
                     contact_name |->
                         Prefer(Get(lead, "hunter_name", NONE),
                                FmtName(
                                  Get(pdl_result, "first_name", EmptyStr),
                                  Get(pdl_result, "last_name", EmptyStr))),
                     contact_title |->
                         Prefer(Get(lead, "hunter_title", NONE),
                                Get(pdl_result, "title", EmptyStr)),
                     confidence |-> Confidence("confirmed"),
                     sources |-> <<"hunter", "pdl">>,
                     linkedin_url |->
                         Get(pdl_result, "linkedin_url", EmptyStr)]
                    @@ lead]
            ELSE Unconfirmed(hunter_email, pdl_result,
                             find_person(target_job_title, person_reply))
        Turn(hunter_email) ==
            IF ~Truthy(hunter_email)
            THEN Direct(find_person(target_job_title, person_reply))
            ELSE Verified(hunter_email,
                          enrich_email(hunter_email, enrich_reply))
    IN  Turn(Get(lead, "hunter_email", NONE))

\* enrich_leads: the stats of a run; success_rate is kept in tenths.
EnrichStats(input, enriched, failed) ==
    [total_input |-> Len(input),
     enriched |-> Len(enriched),
     failed |-> Len(failed),
     success_rate10 |-> IF Len(input) > 0
                        THEN RoundTenths(Len(enriched) * 100, Len(input))
                        ELSE 0,
     high_confidence_count |->
         Len(SelectSeq(enriched, LAMBDA l : Get(l, "confidence", 0) >= 80))]

NoEnrichStats ==
    [total_input |-> 0, enriched |-> 0, failed |-> 0, success_rate10 |-> 0,
     high_confidence_count |-> 0]


\* Leads as the research agent hands them over: with a domain (and the
\* signal "Hiring 3 SDRs"), with an empty domain, without the key.
EnrichLeadKinds ==
    { [company_name |-> <<"Acme">>, domain |-> <<"acme.com">>,
       signal_type |-> "hiring",
       signal_detail |-> <<"H","i","r","i","n","g"," ","3"," ","S","D","R","s">>],
      [company_name |-> <<"Blank">>, domain |-> EmptyStr],
      [company_name |-> <<"Ghost">>] }

\* The batches handed to enrich_leads: up to MaxEnrichLeads leads of any
\* kind, and the pairs of leads of which at most one has a domain.
EnrichBatches ==
    SeqsUpTo(EnrichLeadKinds, MaxEnrichLeads)
        \cup { ls \in [1..2 -> EnrichLeadKinds] :
                   \E i \in 1..2 : ~Truthy(Get(ls[i], "domain", EmptyStr)) }

\* enrich_leads(leads, target_job_title) starts the graph at hunter_enrich
\* with empty result lists and target_job_title or "".  id is the position
\* of a lead in the input, by which the properties follow it.
InitEnrich ==
    /\ e_pc = "hunter_enrich"
    /\ e_i = 1
    /\ \E ls \in EnrichBatches :
           e_leads = [i \in 1..Len(ls) |-> [id |-> i] @@ ls[i]]
    /\ \E t \in {NONE, T_vp_sales} :
           target_job_title = IF Truthy(t) THEN t ELSE EmptyStr
    /\ hunter_key \in BOOLEAN
    /\ pdl_key \in BOOLEAN
    /\ hunter_results = <<>>
    /\ enriched_leads = <<>>
    /\ failed_leads = <<>>
    /\ final_leads = <<>>
    /\ calls = <<>>
    /\ enrich_stats = NoEnrichStats

\* Whether a log holds a request that fn sent.
Sends(fn, log) == \E k \in 1..Len(log) : log[k].fn = fn /\ log[k].http

\* A request the run does not send has no answer to draw.
NoReply == [status |-> "error"]

RepliesIf(sent, replies) == IF sent THEN replies ELSE {NoReply}

\* One turn of hunter_enrich's loop.  An answer is drawn for each request
\* the turn sends: which ones it sends depends on the answers before.
HunterEnrichLead ==
    /\ e_pc = "hunter_enrich"
    /\ e_i <= Len(e_leads)
    /\ \E ds_reply \in RepliesIf(
              /\ Truthy(Get(e_leads[e_i], "domain", EmptyStr))
              /\ Sends("domain_search",
                       find_email(target_job_title, NoReply, NoReply).log),
              DomainSearchReplies) :
       \E ef_reply \in RepliesIf(
              /\ Truthy(Get(e_leads[e_i], "domain", EmptyStr))
              /\ Sends("find_email",
                       find_email(target_job_title, ds_reply, NoReply).log),
              EmailFinderReplies) :
       \E fallback_reply \in RepliesIf(
              Sends("domain_search",
                    HunterOutcome(e_leads[e_i], ds_reply, ef_reply,
                                  NoReply).fallback_log),
              DomainSearchReplies) :
          LET out == HunterOutcome(e_leads[e_i], ds_reply, ef_reply,
                                   fallback_reply)
          IN  /\ hunter_results' = IF out.kind = "found"
                                   THEN Append(hunter_results, out.lead)
                                   ELSE hunter_results
              /\ failed_leads' = IF out.kind = "failed"
                                 THEN Append(failed_leads, out.lead)
                                 ELSE failed_leads
              /\ calls' = calls \o Stamped(out.log, e_leads[e_i].id)
    /\ e_i' = e_i + 1
    /\ UNCHANGED <<e_pc, e_leads, target_job_title, hunter_key, pdl_key,
                   enriched_leads, final_leads, enrich_stats>>
    /\ UNCHANGED not_enrich_vars

\* return {**state, "enriched_leads": hunter_results}; pdl_enrich runs next.
HunterEnrichReturn ==
    /\ e_pc = "hunter_enrich"
    /\ e_i > Len(e_leads)
    /\ enriched_leads' = hunter_results
    /\ e_pc' = "pdl_enrich"
    /\ e_i' = 1
    /\ UNCHANGED <<e_leads, target_job_title, hunter_key, pdl_key,
                   hunter_results, failed_leads, final_leads, enrich_stats,
                   calls>>
    /\ UNCHANGED not_enrich_vars

\* One turn of pdl_enrich's loop; an exception leaves the run without a
\* result.
PdlEnrichLead ==
    /\ e_pc = "pdl_enrich"
    /\ e_i <= Len(enriched_leads)
    /\ \E enrich_reply \in RepliesIf(
              Sends("enrich_email",
                    PdlOutcome(enriched_leads[e_i], NoReply, NoReply).log),
              EnrichEmailReplies) :
       \E person_reply \in RepliesIf(
              Sends("find_person",
                    PdlOutcome(enriched_leads[e_i], enrich_reply,
                               NoReply).log),
              FindPersonReplies) :
          LET out == PdlOutcome(enriched_leads[e_i], enrich_reply,
                                person_reply)
          IN  /\ final_leads' = IF out.kind = "final"
                                THEN Append(final_leads, out.lead)
                                ELSE final_leads
              /\ failed_leads' = IF out.kind = "failed"
                                 THEN Append(failed_leads, out.lead)
                                 ELSE failed_leads
              /\ e_pc' = IF out.kind = "raised" THEN "raised" ELSE e_pc
              /\ calls' = calls \o Stamped(out.log, enriched_leads[e_i].id)
    /\ e_i' = e_i + 1
    /\ UNCHANGED <<e_leads, target_job_title, hunter_key, pdl_key,
                   hunter_results, enriched_leads, enrich_stats>>
    /\ UNCHANGED not_enrich_vars

\* return {**state, "enriched_leads": final_leads}
PdlEnrichReturn ==
    /\ e_pc = "pdl_enrich"
    /\ e_i > Len(enriched_leads)
    /\ enriched_leads' = final_leads
    /\ e_pc' = "stats"
    /\ UNCHANGED <<e_i, e_leads, target_job_title, hunter_key, pdl_key,
                   hunter_results, failed_leads, final_leads, enrich_stats,
                   calls>>
    /\ UNCHANGED not_enrich_vars

\* enrich_leads computes the stats and returns.
EnrichLeadsReturn ==
    /\ e_pc = "stats"
    /\ enrich_stats' = EnrichStats(e_leads, enriched_leads, failed_leads)
    /\ e_pc' = "done"
    /\ UNCHANGED <<e_i, e_leads, target_job_title, hunter_key, pdl_key,
                   hunter_results, enriched_leads, failed_leads, final_leads,
                   calls>>
    /\ UNCHANGED not_enrich_vars

NextEnrich ==
    \/ HunterEnrichLead
    \/ HunterEnrichReturn
    \/ PdlEnrichLead
    \/ PdlEnrichReturn
    \/ EnrichLeadsReturn

\* ---- research_agent.py: generate_queries and search_web ----

\* research_agent.py:75-80: the static queries, three of them keyed by the
\* ICP text.
FallbackQueries(text) ==
    << <<"s","i","t","e",":","g","r","e","e","n","h","o","u","s","e",".","i","o"," ","S","D","R"," ">>
           \o text,
       <<"s","i","t","e",":","l","e","v","e","r",".","c","o"," ","B","D","R"," ">>
           \o text,
       <<"s","i","t","e",":","i","n","d","e","e","d",".","c","o","m"," ","S","D","R"," ">>
           \o text,
       <<"r","a","i","s","e","d"," ","s","e","r","i","e","s"," ","A"," ","S","a","a","S"," ","s","i","t","e",":","t","e","c","h","c","r","u","n","c","h",".","c","o","m">> >>

\* What invoke_llm may answer: text that is not JSON, a JSON array, a JSON
\* object without the key queries, or a JSON object with a list of queries,
\* bare or inside a ``` fence; the lists are none, "site:lever.co SDR", and
\* that query with "seed round B2B".
LlmReplies ==
    { [form |-> "text"], [form |-> "array"], [form |-> "object"] }
        \cup { [form |-> f, queries |-> qs] :
                   f \in {"object", "fenced"}, qs \in { <<>>,
                            << <<"s","i","t","e",":","l","e","v","e","r",".","c","o"," ","S","D","R">> >>,
                            << <<"s","i","t","e",":","l","e","v","e","r",".","c","o"," ","S","D","R">>,
                               <<"s","e","e","d"," ","r","o","u","n","d"," ","B","2","B">> >> } }

\* research_agent.py:64-82: what generate_queries makes of a reply.
\* json.loads raises JSONDecodeError on text that is not JSON, which is
\* caught; on a JSON array parsed.get raises AttributeError, which is not.
ParseQueries(reply, text) ==
    CASE reply.form = "text" ->
            [raised |-> FALSE, queries |-> FallbackQueries(text),
             errors |-> <<"Failed to parse LLM query response">>]
      [] reply.form = "array" ->
            [raised |-> TRUE, queries |-> <<>>, errors |-> <<>>]
      [] OTHER ->
            [raised |-> FALSE, queries |-> Get(reply, "queries", <<>>),
             errors |-> <<>>]

\* research_agent.py:93-105
is_news_query(query) ==
    LET q == Lower(query) IN
    \/ \E site \in { <<"t","e","c","h","c","r","u","n","c","h",".","c","o","m">>,
                      <<"c","r","u","n","c","h","b","a","s","e",".","c","o","m">>,
                      <<"b","u","s","i","n","e","s","s","w","i","r","e",".","c","o","m">> } :
           IsSubstr(site, q)
    \/ /\ \E term \in { <<"r","a","i","s","e","d">>, <<"f","u","n","d","i","n","g">>,
                          <<"s","e","r","i","e","s"," ","a">>,
                          <<"s","e","e","d"," ","r","o","u","n","d">> } :
              IsSubstr(term, q)
       /\ ~IsSubstr(<<"s","i","t","e",":","g","r","e","e","n","h","o","u","s","e">>, q)
       /\ ~IsSubstr(<<"s","i","t","e",":","l","e","v","e","r">>, q)

\* research_agent.py:90-226: the results of the queries that answered a
\* page, minus the pages an earlier query listed.
SearchResults(queries, answers) ==
    LET n == Min(Len(queries), 10)
        hits == { i \in 1..n :
                     /\ answers[i] \in {"url1", "url2"}
                     /\ \A j \in 1..(i - 1) : answers[j] # answers[i] }
        Result(i) ==
            [url |-> answers[i], query |-> queries[i],
             source_type |-> IF is_news_query(queries[i])
                             THEN "funding_news" ELSE "None"]
        RECURSIVE From(_)
        From(i) ==
            IF i > n THEN <<>>
            ELSE (IF i \in hits THEN <<Result(i)>> ELSE <<>>) \o From(i + 1)
    IN  From(1)

\* research_agent.py:216-217: one message per query whose search raised.
SearchErrors(queries, answers) ==
    LET n == Min(Len(queries), 10)
        RECURSIVE From(_)
        From(i) ==
            IF i > n THEN <<>>
            ELSE (IF answers[i] = "raises"
                  THEN << <<"Search failed for ", queries[i]>> >> ELSE <<>>)
                 \o From(i + 1)
    IN  From(1)

\* research_icp starts the graph at generate_queries with the ICP text and
\* empty lists (research_agent.py:341-349); the texts are "SaaS" and
\* "Series A fintech".
InitQuery ==
    /\ q_pc = "generate_queries"
    /\ icp \in { <<"S","a","a","S">>,
                 <<"S","e","r","i","e","s"," ","A"," ","f","i","n","t","e","c","h">> }
    /\ search_queries = <<>>
    /\ raw_results = <<>>
    /\ q_errors = <<>>

\* research_agent.py:20-82
generate_queries ==
    /\ q_pc = "generate_queries"
    /\ \E reply \in LlmReplies :
         LET parsed == ParseQueries(reply, icp) IN
         IF parsed.raised
         THEN /\ q_pc' = "raised"
              /\ UNCHANGED <<search_queries, q_errors>>
         ELSE /\ q_pc' = "search_web"
              /\ search_queries' = parsed.queries
              /\ q_errors' = q_errors \o parsed.errors
    /\ UNCHANGED <<icp, raw_results>>
    /\ UNCHANGED not_query_vars

\* research_agent.py:85-226
search_web ==
    /\ q_pc = "search_web"
    \* one search may raise, list nothing, or list one page of one of two URLs
    /\ \E answers \in [1..Min(Len(search_queries), 10)
                          -> {"raises", "nothing", "url1", "url2"}] :
         /\ raw_results' = SearchResults(search_queries, answers)
         /\ q_errors' = q_errors \o SearchErrors(search_queries, answers)
    /\ q_pc' = "parse_companies"
    /\ UNCHANGED <<icp, search_queries>>
    /\ UNCHANGED not_query_vars

NextQuery ==
    \/ generate_queries
    \/ search_web

\* ---- the resolved leads are scored ----

\* scoring_agent.py:345-376: score_leads is called with the leads
\* enrich_leads resolved (enrichment_agent.py:251-254) and the customer's
\* config, here one of thresholds that names no tools to detect.
ScoreEnrichedLeads ==
    /\ e_pc = "done"
    /\ s_pc = "idle"
    /\ enriched_leads # <<>>
    /\ leads' = enriched_leads
    /\ customer_config' \in { c \in Configs : "competitors" \notin DOMAIN c }
    /\ s_pc' = "enrich_with_tech"
    /\ UNCHANGED <<scored_leads, unqualified_leads, reddit_signals, stats>>
    /\ UNCHANGED not_score_vars

\* The pipeline: enrich_leads, then score_leads on what it resolved.
NextPipeline ==
    \/ HunterEnrichLead
    \/ HunterEnrichReturn
    \/ PdlEnrichLead
    \/ PdlEnrichReturn
    \/ EnrichLeadsReturn
    \/ ScoreEnrichedLeads
    \/ enrich_with_tech
    \/ enrich_with_reddit
    \/ calculate_scores
    \/ filter_qualified
    \/ generate_talking_points
    \/ score_leads_return

\* ---- api/enrich.py, api/score.py: requests on the leads table ----

\* The ids of the stored leads.
LeadIds == 1..MaxLeads

NoRequest == [endpoint |-> "none", all |-> FALSE, lead_ids |-> {}]

\* /research stores every lead it finds with status discovered
\* (api/research.py:62-72).
InitApi ==
    /\ db = [id \in LeadIds |-> "discovered"]
    /\ db_before = [id \in LeadIds |-> "discovered"]
    /\ api_request = NoRequest

\* A request for all leads that reads the whole table.
SelectedAny(all, lead_ids, status) == IF all THEN LeadIds ELSE lead_ids

\* api/enrich.py:29-32, api/score.py:42-45: the rows a request reads, those
\* of the given status under enrich_all or score_all, else those named.
Selected(all, lead_ids, status) ==
    IF all THEN { id \in LeadIds : db[id] = status } ELSE lead_ids

\* api/enrich.py:17-96: POST /enrich.  Without enrich_all and lead_ids the
\* request is refused (:33-36).  Each lead read comes back from enrich_leads
\* as enriched or as failed and its row is updated; the row is kept when the
\* update raises, which is caught (:70-71, :87-88), and every row is kept
\* when enrich_leads raises.
run_enrichment ==
    /\ \E all \in BOOLEAN, lead_ids \in SUBSET LeadIds :
         /\ all \/ lead_ids # {}
         /\ \E outcome \in [Selected(all, lead_ids, "discovered")
                                -> {"enriched", "enrichment_failed", "kept"}] :
                db' = [id \in LeadIds |->
                          IF id \in DOMAIN outcome /\ outcome[id] # "kept"
                          THEN outcome[id] ELSE db[id]]
         /\ api_request' = [endpoint |-> "enrich", all |-> all,
                            lead_ids |-> lead_ids]
    /\ db_before' = db
    /\ UNCHANGED not_api_vars

\* api/score.py:25-94: POST /score.  The rows of the leads score_leads
\* returns as qualified are set to scored (:66-84); the others are kept, as
\* is a row whose update raises and every row when score_leads raises.
run_scoring ==
    /\ \E all \in BOOLEAN, lead_ids \in SUBSET LeadIds :
         /\ all \/ lead_ids # {}
         /\ \E outcome \in [Selected(all, lead_ids, "enriched")
                                -> {"scored", "kept"}] :
                db' = [id \in LeadIds |->
                          IF id \in DOMAIN outcome /\ outcome[id] # "kept"
                          THEN outcome[id] ELSE db[id]]
         /\ api_request' = [endpoint |-> "score", all |-> all,
                            lead_ids |-> lead_ids]
    /\ db_before' = db
    /\ UNCHANGED not_api_vars

NextApi ==
    \/ run_enrichment
    \/ run_scoring

-----------------------------------------------------------------------------
(* Specifications: one per agent; the other agents stay idle. *)

ResearchIdle ==
    /\ r_pc = "idle"
    /\ companies = <<>>
    /\ parsed_companies = <<>>
    /\ all_companies = <<>>
    /\ unique_companies = <<>>
    /\ sources_used = <<>>
    /\ research_errors = <<>>

ScoreIdle ==
    /\ s_pc = "idle"
    /\ leads = <<>>
    /\ customer_config = <<>>
    /\ scored_leads = <<>>
    /\ unqualified_leads = <<>>
    /\ reddit_signals = <<>>
    /\ stats = NoStats

EnrichIdle ==
    /\ e_pc = "idle"
    /\ e_i = 1
    /\ e_leads = <<>>
    /\ target_job_title = EmptyStr
    /\ hunter_key = FALSE
    /\ pdl_key = FALSE
    /\ hunter_results = <<>>
    /\ enriched_leads = <<>>
    /\ failed_leads = <<>>
    /\ final_leads = <<>>
    /\ enrich_stats = NoEnrichStats
    /\ calls = <<>>

MatchIdle ==
    /\ m_target_title = EmptyStr
    /\ m_contacts = <<>>
    /\ m_ran = {}
    /\ m_out = NoMatchOut

QueryIdle ==
    /\ q_pc = "idle"
    /\ icp = EmptyStr
    /\ search_queries = <<>>
    /\ raw_results = <<>>
    /\ q_errors = <<>>

ApiIdle ==
    /\ db = <<>>
    /\ db_before = <<>>
    /\ api_request = NoRequest

ResearchRun ==
    InitResearch /\ ScoreIdle /\ EnrichIdle /\ MatchIdle /\ QueryIdle /\ ApiIdle

ScoreRun ==
    InitScore /\ ResearchIdle /\ EnrichIdle /\ MatchIdle /\ QueryIdle /\ ApiIdle

EnrichRun ==
    InitEnrich /\ ResearchIdle /\ ScoreIdle /\ MatchIdle /\ QueryIdle /\ ApiIdle

MatchRun ==
    InitMatch /\ ResearchIdle /\ ScoreIdle /\ EnrichIdle /\ QueryIdle /\ ApiIdle

QueryRun ==
    InitQuery /\ ResearchIdle /\ ScoreIdle /\ EnrichIdle /\ MatchIdle /\ ApiIdle

ApiRun ==
    InitApi /\ ResearchIdle /\ ScoreIdle /\ EnrichIdle /\ MatchIdle /\ QueryIdle

SpecResearch == ResearchRun /\ [][NextResearch]_vars

SpecScore == ScoreRun /\ [][NextScore]_vars

SpecEnrich == EnrichRun /\ [][NextEnrich]_vars

SpecMatch == MatchRun /\ [][NextMatch]_vars

SpecPipeline == EnrichRun /\ [][NextPipeline]_vars

SpecQuery == QueryRun /\ [][NextQuery]_vars

SpecApi == ApiRun /\ [][NextApi]_vars

-----------------------------------------------------------------------------
(* Properties of discovery and deduplication *)

\* The lowercased domain of a record, the key deduplication is specified on.
KeyOf(c) == Lower(Get(c, "domain", EmptyStr))

\* "." in domain and len(domain) >= 4
ValidDomain(c) ==
    LET d == Get(c, "domain", EmptyStr) IN HasChar(d, ".") /\ Len(d) >= 4

\* output keeps, in arrival order, only first records of their lowercased domain
FirstWins(input, output) ==
    /\ \A i, j \in 1..Len(output) : i # j => KeyOf(output[i]) # KeyOf(output[j])
    /\ \A i \in 1..Len(output) :
         \E p \in 1..Len(input) :
            /\ input[p].id = output[i].id
            /\ \A q \in 1..(p - 1) : KeyOf(input[q]) # KeyOf(output[i])
    /\ \A i, j \in 1..Len(output) :
         i < j => \E p, q \in 1..Len(input) :
                     p < q /\ input[p].id = output[i].id /\ input[q].id = output[j].id

\* C5: the deduplicated output of parse_companies and of research_all_sources
\* holds at most one record per lowercased domain, that record is the first
\* of its domain in arrival order, and the kept records keep their order.
C5_FirstOccurrenceWins ==
    /\ r_pc = "icp" => FirstWins(companies, parsed_companies)
    /\ r_pc = "done" => FirstWins(all_companies, unique_companies)

\* C5 witness: a finished run that dropped a later record whose domain
\* differs from a kept one by case only, and kept two records.
C5_Witness ==
    /\ r_pc = "done"
    /\ Len(unique_companies) >= 2
    /\ \E p, q \in 1..Len(all_companies) :
          /\ p < q
          /\ ValidDomain(all_companies[p])
          /\ Get(all_companies[p], "domain", EmptyStr) # Get(all_companies[q], "domain", EmptyStr)
          /\ KeyOf(all_companies[p]) = KeyOf(all_companies[q])

\* C6 (as claimed): every record output by research_icp/parse_companies and
\* by research_all_sources has a domain with a "." and at least 4 characters.
C6_OutputDomainsValid ==
    /\ r_pc = "icp" => \A i \in 1..Len(parsed_companies) : ValidDomain(parsed_companies[i])
    /\ r_pc = "done" => \A i \in 1..Len(unique_companies) : ValidDomain(unique_companies[i])

\* C7: deduplicating the output of research_all_sources again returns the
\* same records, in the same order, with the same field values.
C7_DedupIdempotent ==
    r_pc = "done" =>
        DedupAllSources(unique_companies) = [raised |-> FALSE, unique |-> unique_companies]

\* C7 witness: a finished run whose deduplication dropped a record and added
\* the default fields to a kept one.
C7_Witness ==
    /\ r_pc = "done"
    /\ Len(unique_companies) >= 1
    /\ Len(unique_companies) < Len(all_companies)
    /\ \E p \in 1..Len(all_companies) :
          /\ "status" \notin DOMAIN all_companies[p]
          /\ \E i \in 1..Len(unique_companies) : unique_companies[i].id = all_companies[p].id

-----------------------------------------------------------------------------
(* Properties of scoring *)

\* The leads calculate_scores has scored: every dict of the input, once the
\* node has run.
Scored == s_pc \in {"filter_qualified", "generate_talking_points", "stats", "done"}

\* The two outputs exist once filter_qualified has run.
Filtered == s_pc \in {"generate_talking_points", "stats", "done"}

SignalTypes(lead) == [i \in 1..Len(lead.signals) |-> lead.signals[i].type]

SumPoints(lead) == SumSeq([i \in 1..Len(lead.signals) |-> lead.signals[i].points])

\* C8: every scored lead has score = min(100, sum of its signals' points),
\* within 0..100; a lead with hiring_sales, hiring_leadership, funding and
\* combo_bonus (125 raw points) has score 100 and tier hot.
C8_ScoreIsCappedSum ==
    Scored =>
        \A i \in 1..Len(leads) :
            /\ leads[i].score = Min(100, SumPoints(leads[i]))
            /\ leads[i].score >= 0
            /\ leads[i].score <= 100
            /\ SignalTypes(leads[i]) = <<"hiring_sales", "hiring_leadership", "funding", "combo_bonus">>
                  => SumPoints(leads[i]) = 125 /\ leads[i].score = 100 /\ leads[i].tier = "hot"

\* C8 witness: score_leads returned a lead whose four signals add up to 125
\* points.
C8_Witness ==
    /\ s_pc = "done"
    /\ \E i \in 1..Len(scored_leads) :
          /\ SignalTypes(scored_leads[i]) = <<"hiring_sales", "hiring_leadership", "funding", "combo_bonus">>
          /\ SumPoints(scored_leads[i]) = 125
          /\ scored_leads[i].score = 100

TierMatchesScore(lead) ==
    /\ lead.tier = "hot" <=> lead.score >= 80
    /\ lead.tier = "warm" <=> (lead.score >= 50 /\ lead.score < 80)
    /\ lead.tier = "cold" <=> lead.score < 50

\* C9: in both outputs the tier is decided by the final score alone: hot iff
\* score >= 80, warm iff 50 <= score < 80, cold iff score < 50; so 80 is hot,
\* 79 and 50 are warm, 49 is cold.
C9_TierFromScore ==
    /\ Filtered =>
          /\ \A i \in 1..Len(scored_leads) : TierMatchesScore(scored_leads[i])
          /\ \A i \in 1..Len(unqualified_leads) : TierMatchesScore(unqualified_leads[i])
    /\ Scored =>
          /\ Tier(80) = "hot"
          /\ Tier(79) = "warm"
          /\ Tier(50) = "warm"
          /\ Tier(49) = "cold"

\* C9 witness: a finished run with a qualified lead scoring exactly 80 (hot),
\* and an unqualified lead.
C9_Witness ==
    /\ s_pc = "done"
    /\ \E i \in 1..Len(scored_leads) :
          scored_leads[i].score = 80 /\ scored_leads[i].tier = "hot"
    /\ \E i \in 1..Len(unqualified_leads) : unqualified_leads[i].tier = "cold"

\* How often the dict with this id occurs in a list.
Occurrences(id, s) == Cardinality({i \in 1..Len(s) : s[i].id = id})

OrderedByScore(s) ==
    \A i, j \in 1..Len(s) :
        i < j => /\ s[i].score >= s[j].score
                 /\ s[i].score = s[j].score => s[i].id < s[j].id

\* C11: scored_leads is ordered by non-increasing score, two leads of equal
\* score are in the relative order of the input (stable sort), and the
\* qualifier filter keeps this order in the list it returns.
C11_SortedStable ==
    /\ Scored => OrderedByScore(scored_leads)
    /\ Filtered => OrderedByScore(unqualified_leads)

\* C11 witness: score_leads returned two qualified leads of equal score, the
\* first of the input before the second.
C11_Witness ==
    /\ s_pc = "done"
    /\ Len(scored_leads) = 2
    /\ scored_leads[1].score = scored_leads[2].score
    /\ scored_leads[1].id = 1
    /\ scored_leads[2].id = 2
    /\ scored_leads[1].company_name # scored_leads[2].company_name

-----------------------------------------------------------------------------
(* Properties of the title matchers *)

\* The words of candidate i that count: its position lowercased, hyphens as
\* spaces, split, stop words removed; none for a null or empty position.
WordsOf(i) ==
    LET p == m_contacts[i].position
    IN  IF Truthy(p) THEN TitleWords(Lower(p)) ELSE {}

TargetWords == TitleWords(Lower(m_target_title))

Denominator == Max(Cardinality(TargetWords), 1)

\* Candidate i triggers the exact-substring rule: it is not skipped and one
\* lowercased string contains the other.
TriggersExact(i) ==
    /\ WordsOf(i) # {}
    /\ ExactMatch(Lower(m_target_title), Lower(m_contacts[i].position))

NoExactTrigger == \A i \in 1..Len(m_contacts) : ~TriggersExact(i)

\* Five times the number of words candidate i shares with the target, plus
\* the denominator when the variant has the 0.2 bonus and a shared word is a
\* key word: the score multiplied by 5 * Denominator.
ScoreOf(i, bonus) ==
    LET shared == TargetWords \cap WordsOf(i)
    IN  5 * Cardinality(shared)
            + (IF bonus /\ shared \cap key_words # {} THEN Denominator ELSE 0)

\* The scores of the first n candidates, in list order.
RECURSIVE ScoresTo(_, _)
ScoresTo(n, bonus) ==
    IF n = 0 THEN <<>>
    ELSE Append(ScoresTo(n - 1, bonus), ScoreOf(n, bonus))

MaxOf(scores) ==
    CHOOSE m \in { scores[i] : i \in 1..Len(scores) } :
        \A i \in 1..Len(scores) : m >= scores[i]

\* The earliest candidate of maximum score when that score is at least 0.4,
\* else 0 (no match).
EarliestBest(bonus) ==
    LET Earliest(scores, best) ==
            CHOOSE i \in 1..Len(scores) :
                /\ scores[i] = best
                /\ \A j \in 1..(i - 1) : scores[j] < best
        Pick(scores, d) ==
            IF MaxOf(scores) >= 2 * d
            THEN Earliest(scores, MaxOf(scores))
            ELSE 0
    IN  Pick(ScoresTo(Len(m_contacts), bonus), Denominator)

BothMatchersRan == {"find_title_match", "find_best_title_match"} \subseteq m_ran

\* The case of C13: the target "Head of Support" and the one candidate
\* "VP of Customer Support and Head of Support Operations".
HeadOfSupportCase ==
    /\ m_target_title = T_head_of_support
    /\ m_contacts = << [position |-> P_vp_support_ops] >>
    /\ BothMatchersRan

\* C13 as stated: for target "Head of Support" and a candidate
\* "VP of Customer Support and Head of Support Operations" the
\* exact-substring rule does not fire (neither string is a substring of the
\* other), and the candidate is selected through its overlap score, which
\* is at least 0.4.
C13_ExactRuleDoesNotFire ==
    HeadOfSupportCase =>
        /\ ~TriggersExact(1)
        /\ ScoreOf(1, FALSE) >= 2 * Denominator
        /\ m_out.find_title_match = 1
        /\ m_out.find_best_title_match = 1

\* C13 amended: for that target and a candidate with that position, the
\* exact-substring rule fires, "head of support" being a substring of the
\* lowercased position, and both matchers return the candidate by that rule
\* unless an earlier candidate triggered it; the overlap of the word sets,
\* {head, support} of two target words, is at least 0.4 as well.
C13_ExactRuleFires ==
    \A i \in 1..Len(m_contacts) :
        (/\ m_target_title = T_head_of_support
         /\ m_contacts[i].position = P_vp_support_ops
         /\ \A j \in 1..(i - 1) : ~TriggersExact(j)) =>
            /\ TriggersExact(i)
            /\ IsSubstr(Lower(T_head_of_support), Lower(P_vp_support_ops))
            /\ ~IsSubstr(Lower(P_vp_support_ops), Lower(T_head_of_support))
            /\ TargetWords \cap WordsOf(i) = TargetWords
            /\ ScoreOf(i, FALSE) >= 2 * Denominator
            /\ "find_title_match" \in m_ran => m_out.find_title_match = i
            /\ "find_best_title_match" \in m_ran
                  => m_out.find_best_title_match = i

\* C13 witness: both matchers have returned the one candidate of the case,
\* which triggers the exact-substring rule.
C13_Witness ==
    /\ HeadOfSupportCase
    /\ TriggersExact(1)
    /\ m_out.find_title_match = 1
    /\ m_out.find_best_title_match = 1

\* C14: when the target title is "" or None, both matchers return no match
\* for every candidate list, and hunter_enrich takes the first contact of
\* the list domain_search answered.
C14_NoTargetNoMatch ==
    ~Truthy(m_target_title) =>
        /\ "find_title_match" \in m_ran => m_out.find_title_match = 0
        /\ "find_best_title_match" \in m_ran
              => m_out.find_best_title_match = 0
        /\ "hunter_enrich" \in m_ran => m_out.hunter_enrich = 1

\* C14 witness: under a None target, both matchers have returned no match
\* and hunter_enrich the first of two candidates, of which the second has
\* a title and the first has none.
C14_Witness ==
    /\ m_target_title = NONE
    /\ BothMatchersRan
    /\ "hunter_enrich" \in m_ran
    /\ Len(m_contacts) = 2
    /\ ~Truthy(m_contacts[1].position)
    /\ Truthy(m_contacts[2].position)
    /\ m_out.find_title_match = 0
    /\ m_out.find_best_title_match = 0
    /\ m_out.hunter_enrich = 1

\* C15: for every non-empty target title and every non-empty candidate list
\* with the same position strings, hunter.find_best_title_match with
\* find_email_by_title's fall-back to the first contact and
\* pdl.find_best_match select the candidate at the same list index.
C15_MatchersSelectSameIndex ==
    (/\ Truthy(m_target_title)
     /\ m_contacts # <<>>
     /\ \A i \in 1..Len(m_contacts) : m_contacts[i].position # NONE
     /\ {"find_email_by_title", "find_person"} \subseteq m_ran) =>
        m_out.find_email_by_title = m_out.find_person

\* The title of a candidate or the target as the word sets see it:
\* lowercased, hyphens replaced by spaces.
Normalized(title) == ReplaceHyphen(Lower(title))

\* Candidate i has words and its normalized position contains the normalized
\* target or is contained in it.
NormalizedExact(i) ==
    /\ WordsOf(i) # {}
    /\ ExactMatch(Normalized(m_target_title), Normalized(m_contacts[i].position))

\* The first candidate in list order for which Hit holds, 0 if none.
FirstOf(Hit(_)) ==
    IF \E i \in 1..Len(m_contacts) : Hit(i)
    THEN CHOOSE i \in 1..Len(m_contacts) :
             Hit(i) /\ \A j \in 1..(i - 1) : ~Hit(j)
    ELSE 0

\* C26: if some candidate with a non-empty word set has a normalized
\* position (lowercased, hyphens replaced by spaces) that contains the
\* normalized target title or is contained in it, each matcher returns the
\* first such candidate in list order, whatever the scores of the candidates
\* before or after it.
C26_FirstNormalizedExactReturned ==
    (Truthy(m_target_title) /\ FirstOf(NormalizedExact) # 0) =>
        /\ "find_title_match" \in m_ran
              => m_out.find_title_match = FirstOf(NormalizedExact)
        /\ "find_best_title_match" \in m_ran
              => m_out.find_best_title_match = FirstOf(NormalizedExact)

\* With the strings lowercased only, as the matchers compare them, the first
\* candidate that triggers the rule is the one returned.
FirstLoweredExactReturned ==
    (Truthy(m_target_title) /\ FirstOf(TriggersExact) # 0) =>
        /\ "find_title_match" \in m_ran
              => m_out.find_title_match = FirstOf(TriggersExact)
        /\ "find_best_title_match" \in m_ran
              => m_out.find_best_title_match = FirstOf(TriggersExact)

-----------------------------------------------------------------------------
(* Properties of contact resolution *)

\* The entries of the call log for function fn and the lead of identity id.
CallsOf(fn, id) ==
    SelectSeq(calls, LAMBDA c : c.fn = fn /\ c.lead = id)

\* The resolved leads of identity id.
ResolvedAs(id) == SelectSeq(final_leads, LAMBDA l : l.id = id)

\* enrich_leads has its result.
EnrichReturned == e_pc \in {"stats", "done"}

\* C1: every lead pdl_enrich resolves, and so every lead enrich_leads returns
\* in enriched_leads, carries a confidence, and it is one of 0.6, 0.7, 0.85
\* and 0.9 (in hundredths).
C1_ConfidenceFromTable ==
    /\ \A k \in 1..Len(final_leads) :
          /\ "confidence" \in DOMAIN final_leads[k]
          /\ final_leads[k].confidence \in {60, 70, 85, 90}
    /\ EnrichReturned => enriched_leads = final_leads

\* A run that returned a lead resolved by agreement of the two providers.
C1_Witness ==
    /\ e_pc = "done"
    /\ \E k \in 1..Len(enriched_leads) :
          /\ enriched_leads[k].confidence = 85
          /\ enrich_stats.high_confidence_count >= 1

\* C2: when enrich_email reports a lead's Hunter email valid, the lead is
\* resolved with that email, confidence 0.9, sources hunter and pdl, the name
\* and title Hunter captured where non-empty and PDL's otherwise, and
\* find_person is not called for the lead.
C2_ConfirmedEmail ==
    \A n \in 1..Len(calls) :
        (/\ calls[n].fn = "enrich_email"
         /\ ~Raised(calls[n].ret)
         /\ calls[n].ret.valid)
        => LET ret == calls[n].ret
               resolved == ResolvedAs(calls[n].lead)
               l == resolved[1]
           IN  /\ Len(resolved) = 1
               /\ Truthy(l.hunter_email)
               /\ ret.email = l.hunter_email
               /\ l.contact_email = l.hunter_email
               /\ l.confidence = 90
               /\ l.sources = <<"hunter", "pdl">>
               /\ l.contact_name =
                      IF l.hunter_name # EmptyStr THEN l.hunter_name
                      ELSE FmtName(ret.first_name, ret.last_name)
               /\ l.contact_title =
                      IF l.hunter_title # EmptyStr /\ l.hunter_title # NONE
                      THEN l.hunter_title
                      ELSE ret.title
               /\ CallsOf("find_person", calls[n].lead) = <<>>

\* A confirmed lead whose name is Hunter's although PDL holds another, and
\* whose title is PDL's because Hunter captured none.
C2_Witness ==
    \E n \in 1..Len(calls) :
        /\ calls[n].fn = "enrich_email"
        /\ ~Raised(calls[n].ret)
        /\ calls[n].ret.valid
        /\ \E k \in 1..Len(final_leads) :
              /\ final_leads[k].id = calls[n].lead
              /\ final_leads[k].hunter_name # EmptyStr
              /\ final_leads[k].contact_name
                    # FmtName(calls[n].ret.first_name, calls[n].ret.last_name)
              /\ final_leads[k].hunter_title = NONE
              /\ final_leads[k].contact_title = calls[n].ret.title

\* C3: when enrich_email does not report a lead's Hunter email valid, and
\* find_person returns, the lead is resolved with the Hunter email and by
\* what find_person found: the same email, 0.85 and sources hunter and pdl;
\* another email, 0.7, sources hunter and the other email kept as
\* pdl_alternative; no email, 0.6 and sources hunter.
C3_UnconfirmedEmail ==
    \A n \in 1..Len(calls) :
        (/\ calls[n].fn = "enrich_email"
         /\ ~Raised(calls[n].ret)
         /\ ~calls[n].ret.valid)
        => LET asked == CallsOf("find_person", calls[n].lead)
               found == Get(asked[1].ret, "email", NONE)
               resolved == ResolvedAs(calls[n].lead)
               l == resolved[1]
           IN  /\ Len(asked) = 1
               /\ ~Raised(asked[1].ret) =>
                    /\ Len(resolved) = 1
                    /\ Truthy(l.hunter_email)
                    /\ calls[n].ret.email = l.hunter_email
                    /\ l.contact_email = l.hunter_email
                    /\ (Truthy(found) /\ found = l.hunter_email) =>
                          /\ l.confidence = 85
                          /\ l.sources = <<"hunter", "pdl">>
                    /\ (Truthy(found) /\ found # l.hunter_email) =>
                          /\ l.confidence = 70
                          /\ l.sources = <<"hunter">>
                          /\ "pdl_alternative" \in DOMAIN l
                          /\ l.pdl_alternative = found
                    /\ ~Truthy(found) =>
                          /\ l.confidence = 60
                          /\ l.sources = <<"hunter">>

\* An unconfirmed lead for which find_person found another email.
C3_Witness ==
    \E n \in 1..Len(calls), k \in 1..Len(final_leads) :
        /\ calls[n].fn = "find_person"
        /\ calls[n].lead = final_leads[k].id
        /\ CallsOf("enrich_email", calls[n].lead) # <<>>
        /\ ~Raised(calls[n].ret)
        /\ Truthy(calls[n].ret.email)
        /\ calls[n].ret.email # final_leads[k].hunter_email
        /\ final_leads[k].pdl_alternative = calls[n].ret.email

\* Hunter yielded no email for the input lead of identity id, which has a
\* domain: hunter_enrich is over and captured no email for it.
NoHunterEmail(id) ==
    /\ e_pc \in {"pdl_enrich", "stats", "done"}
    /\ Truthy(Get(e_leads[id], "domain", EmptyStr))
    /\ \A k \in 1..Len(hunter_results) :
          hunter_results[k].id = id => ~Truthy(hunter_results[k].hunter_email)

\* C4: in the result of a run with both API keys set, a lead with a domain
\* for which Hunter yielded no email has had find_person asked for it, and is
\* resolved with the email find_person found, confidence 0.6 and sources pdl,
\* or failed if it found none.
C4_NoHunterEmailAsksPdl ==
    (EnrichReturned /\ hunter_key /\ pdl_key) =>
        \A id \in 1..Len(e_leads) :
            NoHunterEmail(id) =>
                LET asked == CallsOf("find_person", id)
                    found == Get(asked[1].ret, "email", NONE)
                    resolved == ResolvedAs(id)
                IN  /\ Len(asked) = 1
                    /\ Truthy(found) =>
                          /\ Len(resolved) = 1
                          /\ resolved[1].contact_email = found
                          /\ resolved[1].confidence = 60
                          /\ resolved[1].sources = <<"pdl">>
                    /\ ~Truthy(found) =>
                          /\ resolved = <<>>
                          /\ \E k \in 1..Len(failed_leads) :
                                failed_leads[k].id = id

\* The lead at position id of the input has no domain: the key is missing
\* or its value is "".
NoDomain(id) == ~Truthy(Get(e_leads[id], "domain", EmptyStr))

\* hunter_enrich's loop is past the lead at position id.
HunterPassed(id) ==
    \/ e_pc = "hunter_enrich" /\ e_i > id
    \/ e_pc \in {"pdl_enrich", "raised", "stats", "done"}

\* The failed leads of identity id.
FailedAs(id) == SelectSeq(failed_leads, LAMBDA l : l.id = id)

HunterFoundAs(id) == SelectSeq(hunter_results, LAMBDA l : l.id = id)

\* C16: a lead whose domain is missing or empty is put in failed_leads with
\* a non-empty reason, no provider call is made for it, handling it raises
\* no exception, and the other leads of the batch are still processed: each
\* is handled by hunter_enrich, and in the result of the run each is in
\* exactly one of enriched_leads and failed_leads.
C16_NoDomainFailsAlone ==
    /\ \A id \in 1..Len(e_leads) :
          (NoDomain(id) /\ HunterPassed(id)) =>
              /\ Len(FailedAs(id)) = 1
              /\ "error" \in DOMAIN FailedAs(id)[1]
              /\ FailedAs(id)[1].error = E_no_domain
              /\ FailedAs(id)[1].error # EmptyStr
              /\ FailedAs(id)[1].error # NONE
              /\ \A n \in 1..Len(calls) : calls[n].lead # id
              /\ HunterFoundAs(id) = <<>>
              /\ ResolvedAs(id) = <<>>
              /\ \A j \in 1..Len(e_leads) :
                    (j # id /\ HunterPassed(j) /\ e_pc = "hunter_enrich") =>
                        Len(HunterFoundAs(j)) + Len(FailedAs(j)) = 1
              /\ e_pc = "done" =>
                    /\ \A j \in 1..Len(e_leads) :
                          Len(SelectSeq(enriched_leads, LAMBDA l : l.id = j))
                              + Len(FailedAs(j)) = 1
                    /\ enrich_stats.total_input = Len(e_leads)
                    /\ enrich_stats.enriched + enrich_stats.failed
                          = Len(e_leads)
    /\ (\A id \in 1..Len(e_leads) : NoDomain(id)) => e_pc # "raised"

\* C16 witness: a run returned a batch of two, the first lead without a
\* domain failed with no call made for it, the second resolved after calls
\* to both providers.
C16_Witness ==
    /\ e_pc = "done"
    /\ Len(e_leads) = 2
    /\ NoDomain(1)
    /\ Len(FailedAs(1)) = 1
    /\ FailedAs(1)[1].error = E_no_domain
    /\ \A n \in 1..Len(calls) : calls[n].lead = 2
    /\ \E n \in 1..Len(calls) : calls[n].fn = "find_email" /\ calls[n].http
    /\ \E n \in 1..Len(calls) : calls[n].fn = "enrich_email" /\ calls[n].http
    /\ Len(enriched_leads) = 1
    /\ enriched_leads[1].id = 2

\* C17: whatever the batch and whatever the provider calls do, an error
\* other than not-found included, enrich_leads returns normally with an
\* enriched_leads and a failed_leads sequence, and a failure on one lead does
\* not keep the other leads from being processed and returned: no run ends
\* in an exception, and a run that returned holds every lead of the batch in
\* one of the two sequences.
C17_AlwaysReturnsBothLists ==
    /\ e_pc # "raised"
    /\ e_pc = "done" =>
          \A id \in 1..Len(e_leads) :
              Len(SelectSeq(enriched_leads, LAMBDA l : l.id = id))
                  + Len(FailedAs(id)) = 1

\* An endpoint that errors: a failed request or a status that is not a 2xx.
Unavailable == [status |-> "error"]

\* Answers of Hunter that carry no data: an empty list of the domain, and a
\* finder answer without an email.
EmptySearch == [status |-> "ok", organization |-> <<"Acme">>, emails |-> <<>>]

NoEmailFound == [status |-> "ok", data |-> [email |-> NONE]]

\* Answers of PDL that carry no data: no profile of the email, no person of
\* the domain.
NoProfile == [status |-> "ok", data |-> <<>>]

NoPerson == [status |-> "ok", data |-> <<>>]

\* The Hunter outcome of a lead when every request errors, and when the
\* requests named in the set answer without data.
HunterOutcomeWhen(lead, no_data) ==
    HunterOutcome(lead,
                  IF "search" \in no_data THEN EmptySearch ELSE Unavailable,
                  IF "finder" \in no_data THEN NoEmailFound ELSE Unavailable,
                  IF "fallback" \in no_data THEN EmptySearch ELSE Unavailable)

PdlOutcomeWhen(lead, no_data) ==
    PdlOutcome(lead,
               IF "enrich" \in no_data THEN NoProfile ELSE Unavailable,
               IF "person" \in no_data THEN NoPerson ELSE Unavailable)

\* C18: a provider call that is unavailable or errors (no API key, a failed
\* request, a status that is not a 2xx) gives the lead the outcome of the
\* same call returning no data.  With Hunter unavailable a lead with a
\* domain is failed with the reason of "no email found", as when Hunter
\* answers without data; with PDL unavailable a lead with a Hunter email is
\* resolved with that email, confidence 0.6 and sources hunter, as when PDL
\* answers without data.
C18_UnavailableAsNoData ==
    /\ \A id \in 1..Len(e_leads) :
          ~NoDomain(id) =>
              /\ \A no_data \in SUBSET {"search", "finder", "fallback"} :
                    /\ HunterOutcomeWhen(e_leads[id], no_data).kind = "failed"
                    /\ HunterOutcomeWhen(e_leads[id], no_data).lead
                          = [error |-> E_hunter_none] @@ e_leads[id]
              /\ (~hunter_key /\ HunterPassed(id)) =>
                    /\ FailedAs(id)
                          = << [error |-> E_hunter_none] @@ e_leads[id] >>
                    /\ HunterFoundAs(id) = <<>>
                    /\ \A n \in 1..Len(calls) :
                          calls[n].lead = id => ~calls[n].http
    /\ \A k \in 1..Len(hunter_results) :
          Truthy(hunter_results[k].hunter_email) =>
              /\ \A no_data \in SUBSET {"enrich", "person"} :
                    LET out == PdlOutcomeWhen(hunter_results[k], no_data)
                    IN  /\ out.kind = "final"
                        /\ out.lead.contact_email
                              = hunter_results[k].hunter_email
                        /\ out.lead.confidence = 60
                        /\ out.lead.sources = <<"hunter">>
                        /\ out.lead = PdlOutcomeWhen(hunter_results[k], {}).lead
              /\ (~pdl_key /\ EnrichReturned) =>
                    LET resolved == ResolvedAs(hunter_results[k].id)
                    IN  /\ Len(resolved) = 1
                        /\ resolved[1].contact_email
                              = hunter_results[k].hunter_email
                        /\ resolved[1].confidence = 60
                        /\ resolved[1].sources = <<"hunter">>
                        /\ FailedAs(hunter_results[k].id) = <<>>

\* C18 witness: a run with Hunter's key and without PDL's returned a lead
\* resolved with its Hunter email, confidence 0.6 and sources hunter, both
\* PDL calls entered for it and none sent.
C18_Witness ==
    /\ e_pc = "done"
    /\ hunter_key
    /\ ~pdl_key
    /\ \E k \in 1..Len(enriched_leads) :
          /\ Truthy(enriched_leads[k].hunter_email)
          /\ enriched_leads[k].contact_email = enriched_leads[k].hunter_email
          /\ enriched_leads[k].confidence = 60
          /\ enriched_leads[k].sources = <<"hunter">>
          /\ Len(CallsOf("enrich_email", enriched_leads[k].id)) = 1
          /\ Len(CallsOf("find_person", enriched_leads[k].id)) = 1
          /\ \A n \in 1..Len(calls) :
                calls[n].fn \in {"enrich_email", "find_person"}
                    => ~calls[n].http

\* The requests sent to the endpoint behind fn for the lead of identity id
\* (find_email: Hunter's email-finder, domain_search: Hunter's domain-search,
\* enrich_email: PDL's person/enrich, find_person: PDL's person/search).
RequestsOf(fn, id) ==
    SelectSeq(calls, LAMBDA c : c.fn = fn /\ c.lead = id /\ c.http)

\* C19: there is no retry: within one run each provider endpoint (Hunter
\* email-finder, Hunter domain-search, PDL enrich-by-email, PDL find-person)
\* is requested at most once per lead, whatever the earlier calls returned.
C19_EachEndpointOncePerLead ==
    \A id \in 1..Len(e_leads) :
        \A fn \in {"find_email", "domain_search", "enrich_email", "find_person"} :
            Len(RequestsOf(fn, id)) <= 1

\* The Hunter email captured for the lead of identity id, None if none was.
HunterEmailOf(id) ==
    IF HunterFoundAs(id) = <<>> THEN NONE
    ELSE Get(HunterFoundAs(id)[1], "hunter_email", NONE)

\* C20: the providers are queried in a fixed order for every lead: no PDL
\* call is made for a lead before Hunter has been queried for it,
\* enrich_email is called only with an email obtained from Hunter, and
\* find_person is called for a lead with a Hunter email only after
\* enrich_email reported the email as not valid.
C20_HunterThenPdl ==
    \A n \in 1..Len(calls) :
        LET id == calls[n].lead
        IN  /\ calls[n].fn \in {"enrich_email", "find_person"} =>
                  /\ \E m \in 1..(n - 1) :
                        /\ calls[m].lead = id
                        /\ calls[m].fn \in {"find_email", "domain_search"}
                        /\ calls[m].http
                  /\ \A m \in (n + 1)..Len(calls) :
                        calls[m].fn \in {"enrich_email", "find_person"}
                  /\ Len(HunterFoundAs(id)) = 1
            /\ calls[n].fn = "enrich_email" =>
                  /\ Truthy(HunterEmailOf(id))
                  /\ ~Raised(calls[n].ret) =>
                        calls[n].ret.email = HunterEmailOf(id)
            /\ (calls[n].fn = "find_person" /\ Truthy(HunterEmailOf(id))) =>
                  \E m \in 1..(n - 1) :
                      /\ calls[m].lead = id
                      /\ calls[m].fn = "enrich_email"
                      /\ ~Raised(calls[m].ret)
                      /\ ~calls[m].ret.valid

\* C20 witness: for one lead the log holds a Hunter request, then
\* enrich_email on the Hunter email answering not valid, then find_person.
C20_Witness ==
    \E a, b, c \in 1..Len(calls) :
        /\ a < b
        /\ b < c
        /\ calls[a].lead = calls[c].lead
        /\ calls[b].lead = calls[c].lead
        /\ calls[a].fn = "find_email"
        /\ calls[a].http
        /\ calls[b].fn = "enrich_email"
        /\ ~Raised(calls[b].ret)
        /\ ~calls[b].ret.valid
        /\ calls[b].ret.email = HunterEmailOf(calls[b].lead)
        /\ calls[c].fn = "find_person"
        /\ calls[c].http

\* The run of enrich_leads is over: it returned or it ended in an exception.
EnrichOver == e_pc \in {"done", "raised"}

\* The lists and stats enrich_leads returned split the batch: each input
\* lead is once in enriched_leads or once in failed_leads and not in both, a
\* failed lead carries a reason that is not empty, and the counts add up.
SplitsBatch ==
    /\ \A id \in 1..Len(e_leads) :
          Len(SelectSeq(enriched_leads, LAMBDA l : l.id = id))
              + Len(FailedAs(id)) = 1
    /\ Len(enriched_leads) + Len(failed_leads) = Len(e_leads)
    /\ \A k \in 1..Len(failed_leads) :
          /\ "error" \in DOMAIN failed_leads[k]
          /\ Truthy(failed_leads[k].error)
    /\ enrich_stats.total_input = Len(e_leads)
    /\ enrich_stats.enriched = Len(enriched_leads)
    /\ enrich_stats.failed = Len(failed_leads)
    /\ enrich_stats.enriched + enrich_stats.failed
          = enrich_stats.total_input

\* C29: enrich_leads partitions its input: after the run every input lead
\* is in exactly one of enriched_leads and failed_leads, every failed lead
\* carries a non-empty error reason, and stats.enriched + stats.failed =
\* stats.total_input.
C29_RunPartitionsInput ==
    EnrichOver => (e_pc = "done" /\ SplitsBatch)

\* A run that returns does split its batch.
ReturnedRunSplitsBatch == e_pc = "done" => SplitsBatch

\* The node generate_talking_points has run.
Pointed == s_pc \in {"stats", "done"}

\* C22: a qualified lead with zero signals (min_signals 0) gets an empty
\* talking_points list and no sample opener is generated for it: the key
\* sample_opener is not set, and generate_opener would return "".
C22_NoSignalsNoOpener ==
    Pointed =>
        \A i \in 1..Len(scored_leads) :
            scored_leads[i].signals = <<>> =>
                /\ scored_leads[i].talking_points = <<>>
                /\ "sample_opener" \notin DOMAIN scored_leads[i]
                /\ generate_opener(scored_leads[i]) = EmptyStr

\* C22 witness: a lead without signals is qualified under min_signals 0 and
\* score_leads has returned.
C22_Witness ==
    /\ s_pc = "done"
    /\ Get(customer_config, "min_signals", 1) = 0
    /\ \E i \in 1..Len(scored_leads) :
           /\ scored_leads[i].signals = <<>>
           /\ scored_leads[i].signal_count = 0
           /\ "talking_points" \in DOMAIN scored_leads[i]

\* The place of a signal type in the order of detection.
DetectionRank(type) ==
    CASE type = "hiring_sales" -> 1
      [] type = "hiring_leadership" -> 2
      [] type = "funding" -> 3
      [] type \in {"tech_competitor", "tech_target"} -> 4
      [] OTHER -> 5

\* C25: in every scored lead the signals hold a combo_bonus iff the lead has
\* at least 3 other signals; there is at most one combo_bonus and it is the
\* last element; the other signals come in the detection order
\* hiring_sales, hiring_leadership, funding, then the tech signals.
C25_ComboLastAndOrdered ==
    Scored =>
        \A k \in 1..Len(leads) :
            LET types == SignalTypes(leads[k])
                combos == { i \in 1..Len(types) : types[i] = "combo_bonus" }
                others == { i \in 1..Len(types) : types[i] # "combo_bonus" }
            IN  /\ (combos # {}) <=> (Cardinality(others) >= 3)
                /\ Cardinality(combos) <= 1
                /\ combos \subseteq {Len(types)}
                /\ \A i, j \in others :
                      i < j => /\ DetectionRank(types[i]) <= DetectionRank(types[j])
                               /\ DetectionRank(types[i]) <= 4
                               /\ DetectionRank(types[j]) <= 4
                               /\ types[i] = types[j] =>
                                      DetectionRank(types[i]) = 4

\* C25 witness: a lead scored with hiring_sales, hiring_leadership, funding,
\* a tech signal and the bonus, in this order, and one with fewer than
\* three signals and no bonus.
C25_Witness ==
    /\ s_pc = "done"
    /\ \E k \in 1..Len(leads) :
           /\ Len(leads[k].signals) = 5
           /\ SubSeq(SignalTypes(leads[k]), 1, 3)
                 = <<"hiring_sales", "hiring_leadership", "funding">>
           /\ SignalTypes(leads[k])[4] \in {"tech_competitor", "tech_target"}
           /\ SignalTypes(leads[k])[5] = "combo_bonus"
    /\ \E k \in 1..Len(leads) :
           /\ Len(leads[k].signals) = 2
           /\ \A i \in 1..2 : leads[k].signals[i].type # "combo_bonus"

\* vp, head of, director, chief, cro
LeadershipWords ==
    { <<"v","p">>, <<"h","e","a","d"," ","o","f">>, <<"d","i","r","e","c","t","o","r">>,
      <<"c","h","i","e","f">>, <<"c","r","o">> }

NamesLeader(lead) ==
    \E w \in LeadershipWords : IsSubstr(w, Lower(lead.signal_detail))

HasSignal(lead, type) == InSeq(type, SignalTypes(lead))

\* C27 as claimed: calculate_scores adds a hiring_leadership signal to a
\* lead exactly when its lowercased signal_detail contains one of vp,
\* head of, director, chief, cro, whether or not hiring_sales was added.
C27_LeadershipIffKeyword ==
    Scored =>
        \A k \in 1..Len(leads) :
            HasSignal(leads[k], "hiring_leadership") <=> NamesLeader(leads[k])

\* C27, amended: the signal is added exactly when signal_type is hiring and
\* the lowercased detail contains one of the five words, whether or not
\* hiring_sales was added.
C27_LeadershipIffHiringKeyword ==
    Scored =>
        \A k \in 1..Len(leads) :
            HasSignal(leads[k], "hiring_leadership")
                <=> (leads[k].signal_type = "hiring" /\ NamesLeader(leads[k]))

\* C27 witness: scored leads with both hiring signals and with
\* hiring_leadership alone.
C27_Witness ==
    /\ s_pc = "done"
    /\ \E k \in 1..Len(leads) :
           /\ HasSignal(leads[k], "hiring_leadership")
           /\ HasSignal(leads[k], "hiring_sales")
    /\ \E k \in 1..Len(leads) :
           /\ HasSignal(leads[k], "hiring_leadership")
           /\ ~HasSignal(leads[k], "hiring_sales")

\* C23: every qualified lead with at least one signal receives outreach
\* text derived from its first signal, of any of the five types; when the
\* first signal is tech_target the text passes the detail through, so the
\* lead's sample_opener is set and not empty.
C23_OpenerForEverySignal ==
    Pointed =>
        \A i \in 1..Len(scored_leads) :
            scored_leads[i].signals # <<>> =>
                /\ scored_leads[i].talking_points # <<>>
                /\ "sample_opener" \in DOMAIN scored_leads[i]
                /\ scored_leads[i].sample_opener # EmptyStr

\* The lead reduced to what the opener may depend on: the company name and
\* the first signal.
NameAndFirstSignal(lead) ==
    [company_name |-> lead.company_name, signals |-> <<lead.signals[1]>>]

\* Some signal after the first carries more points than the first.
LaterSignalStronger(lead) ==
    \E k \in 2..Len(lead.signals) :
        lead.signals[k].points > lead.signals[1].points

-----------------------------------------------------------------------------
(* Properties of the pipeline: enrichment, then scoring *)

\* The lead {domain acme.com, signal_type hiring, signal_detail
\* "Hiring 3 SDRs"}, as the only lead of the batch.
ScenarioLead ==
    [id |-> 1, company_name |-> <<"Acme">>, domain |-> <<"acme.com">>,
     signal_type |-> "hiring",
     signal_detail |-> <<"H","i","r","i","n","g"," ","3"," ","S","D","R","s">>]

ScenarioRun ==
    /\ e_leads = <<ScenarioLead>>
    /\ target_job_title = T_vp_sales
    /\ hunter_key
    /\ pdl_key

\* Hunter's part: the finder answers no email, the domain list answers the
\* one contact a@acme.com, VP Sales.
ScenarioHunter ==
    LET listed == [status |-> "ok", organization |-> <<"Acme">>,
                   emails |-> <<HP_vp>>]
    IN  HunterOutcome(ScenarioLead, listed,
                      [status |-> "ok", data |-> [email |-> NONE]], listed)

\* PDL's part: enrich_email answers a profile, so the email is valid.
ScenarioPdl ==
    PdlOutcome(ScenarioHunter.lead,
               [status |-> "ok",
                data |-> [first_name |-> <<"Pat">>, last_name |-> <<"Doe">>,
                          job_title |-> <<"C","R","O">>,
                          linkedin_url |-> <<"linkedin.com/in/pat">>]],
               [status |-> "404"])

HasScenarioContact(lead) ==
    /\ Get(lead, "contact_email", EmptyStr) = EM_a
    /\ Get(lead, "confidence", 0) = 90
    /\ Get(lead, "sources", <<>>) = <<"hunter", "pdl">>

\* C21: for the single lead {acme.com, hiring, "Hiring 3 SDRs"}, target
\* title "VP Sales", Hunter's finder answering no email, its domain list
\* answering the one contact a@acme.com with position "VP Sales", and PDL
\* confirming the email, the lead is resolved with contact_email a@acme.com,
\* confidence 0.9 and sources hunter, pdl, and enrich_leads counts
\* enriched = 1; scored under the default config it carries the one signal
\* hiring_sales, score 40 and tier cold, is kept by the qualifier, and the
\* stats read qualified = 1, cold = 1, average 40.0.
C21_EndToEnd ==
    ScenarioRun =>
        /\ ScenarioHunter.kind = "found"
        /\ ScenarioPdl.kind = "final"
        /\ HasScenarioContact(ScenarioPdl.lead)
        /\ (e_pc = "done" /\ enriched_leads = <<ScenarioPdl.lead>>) =>
              /\ enrich_stats.enriched = 1
              /\ enrich_stats.failed = 0
              /\ (s_pc = "done" /\ customer_config = <<>>) =>
                    /\ Len(scored_leads) = 1
                    /\ unqualified_leads = <<>>
                    /\ HasScenarioContact(scored_leads[1])
                    /\ SignalTypes(scored_leads[1]) = <<"hiring_sales">>
                    /\ scored_leads[1].signal_count = 1
                    /\ scored_leads[1].score = 40
                    /\ scored_leads[1].tier = "cold"
                    /\ stats.qualified = 1
                    /\ stats.cold = 1
                    /\ stats.hot = 0
                    /\ stats.warm = 0
                    /\ stats.avg_score10 = 400

\* C21 witness: the scenario has run to the end of score_leads.
C21_Witness ==
    /\ ScenarioRun
    /\ e_pc = "done"
    /\ enriched_leads = <<ScenarioPdl.lead>>
    /\ Len(calls) = 2
    /\ calls[1].fn = "domain_search"
    /\ calls[2].fn = "enrich_email"
    /\ customer_config = <<>>
    /\ s_pc = "done"
    /\ stats.qualified = 1

-----------------------------------------------------------------------------
(* Properties of query generation *)

ParseError == "Failed to parse LLM query response"

\* C24: when the reply of the query generator cannot be parsed as the
\* expected structure, generate_queries does not raise: it appends one error
\* message to the errors list, substitutes the static queries keyed by the
\* ICP text, and the run continues to search_web with those queries.
C24_UnparseableReplyFallsBack ==
    /\ q_pc # "raised"
    /\ (q_pc \in {"search_web", "parse_companies"} /\ InSeq(ParseError, q_errors)) =>
          /\ search_queries = FallbackQueries(icp)
          /\ Len(SelectSeq(q_errors, LAMBDA e : e = ParseError)) = 1

-----------------------------------------------------------------------------
(* Properties of the requests on the leads table *)

\* Each status is what it was, or the next one: discovered to enriched or
\* enrichment_failed, enriched to scored.
Forward(before, after) ==
    \A id \in LeadIds :
        \/ after[id] = before[id]
        \/ before[id] = "discovered" /\ after[id] \in {"enriched", "enrichment_failed"}
        \/ before[id] = "enriched" /\ after[id] = "scored"

\* C30 as claimed: under any sequence of /enrich and /score requests a
\* lead's status only moves forward: a scored lead is never set back to
\* enriched or enrichment_failed, and a lead is set to scored only if its
\* status was enriched.
C30_StatusOnlyMovesForward == Forward(db_before, db)

\* C30, amended: under /enrich requests with enrich_all and /score requests
\* with score_all a lead's status only moves forward.
C30_ForwardUnderAllRequests == api_request.all => Forward(db_before, db)

\* C30 witness: a score_all request has set an enriched lead to scored and
\* left alone a lead that was scored before and one that is not enriched.
C30_Witness ==
    /\ api_request.endpoint = "score"
    /\ api_request.all
    /\ \E id \in LeadIds : db_before[id] = "enriched" /\ db[id] = "scored"
    /\ \E id \in LeadIds : db_before[id] # "enriched" /\ db[id] = db_before[id]

====
